---- MODULE Spec2Model ----
(***************************************************************************)
(* Model of the ITIL back end: the patch-field encodings, the entity       *)
(* repositories (configuration items, incidents, problems, RFCs), the      *)
(* configuration-item change records, the relation repositories and the    *)
(* derived incident priority.                                              *)
(*                                                                         *)
(* Encodings used throughout                                               *)
(*   Option<T>          None = <<>>,  Some(v) = <<v>>                      *)
(*   PatchField<T>      <<"Missing">>, <<"Null">>, <<"Value", v>>          *)
(*   Result<T, Error>   <<"Ok", v>>,  <<"Err", kind>>                      *)
(*   String             [ch |-> c, len |-> n], the string c.repeat(n)      *)
(*   JSON object        a function from the keys present to Option values  *)
(*                      (<<>> is JSON null)                                *)
(*   table              a set of rows (records)                            *)
(***************************************************************************)
EXTENDS Integers, Sequences, FiniteSets, TLC

VARIABLES db, next_uuid, last, nops, focus, linked, serde, prio, conc, valid

vars == <<db, next_uuid, last, nops, focus, linked, serde, prio, conc, valid>>

(***************************************************************************)
(* Bounds of the model.                                                    *)
(***************************************************************************)
\* number of requests of one client session on the entity endpoints
MaxOps == 2
\* number of requests of one client session on the relation endpoints
MaxRelOps == 5
\* number of requests of one client session on the change records of
\* configuration items
MaxChangeOps == 4

\* requests begun while a relation is created, read and its parent deleted
MaxConcOps == 4
\* records stored before concurrent updates and a delete are served
MaxRaceRecords == 1
\* number of keys in which a JSON object given to the deserializers differs
\* from {}, from the object of nulls or from the basic payload
MaxDeviations == 2
\* timestamps are 1..MaxTime
MaxTime == 2

(***************************************************************************)
(* Option, Result, strings.                                                *)
(***************************************************************************)
None == <<>>
Some(v) == <<v>>
is_none(o) == o = None
is_some(o) == o # None
unwrap(o) == o[1]
unwrap_or(o, d) == IF is_some(o) THEN o[1] ELSE d

Ok(v) == <<"Ok", v>>
Err(e) == <<"Err", e>>
is_ok(r) == r[1] = "Ok"
is_err(r) == r[1] = "Err"

ValidationError == "ValidationError"
NoRecordFound == "NoRecordFound"
ConstraintError == "ConstraintError"
DbError == "DbError"

\* impl IntoResponse for Error; "Other" stands for Error::Other(anyhow::Error)
into_response_mut(e) ==
    CASE e = ConstraintError -> [status |-> 422, body |-> "empty"]
      [] e = ValidationError -> [status |-> 422, body |-> "message"]
      [] OTHER -> [status |-> 500, body |-> "empty"]

into_response(e) ==
    CASE e = NoRecordFound -> [status |-> 404, body |-> "empty"]
      [] e = ConstraintError -> [status |-> 422, body |-> "empty"]
      [] e = ValidationError -> [status |-> 422, body |-> "message"]
      [] e = DbError -> [status |-> 500, body |-> "empty"]
      [] OTHER -> [status |-> 500, body |-> "empty"]

Str(c, n) == [ch |-> c, len |-> n]
EmptyStr == Str("", 0)
StrLen(s) == s.len

Times == 1 .. MaxTime

(***************************************************************************)
(* entity_helpers.rs: PatchField                                           *)
(***************************************************************************)
Missing == <<"Missing">>
Null == <<"Null">>
Value(v) == <<"Value", v>>

leave_unchanged_mut(p) == p[1] # "Value"
leave_unchanged(p) == p = Missing

PatchField_default == Missing

\* impl From<Option<T>> for PatchField<T>
PatchField_from_mut(opt) == IF is_some(opt) THEN Value(unwrap(opt)) ELSE Missing
PatchField_from(opt) == IF is_some(opt) THEN Value(unwrap(opt)) ELSE Null

\* impl Into<Option<T>> for PatchField<T>
\* Null becomes the empty string in place of None
PatchField_into_mut(p) == IF p[1] = "Value" THEN Some(p[2]) ELSE Some(EmptyStr)
PatchField_into(p) == IF p[1] = "Value" THEN Some(p[2]) ELSE None

(***************************************************************************)
(* serde: reading and writing one key of a JSON object.                    *)
(***************************************************************************)
has_key(json, k) == k \in DOMAIN json

\* Option::<T>::deserialize on a JSON value: null is None, v is Some(v)
Option_deserialize(jv) == jv

\* a field of type PatchField<T> under #[serde(default)]
PatchField_deserialize(json, k) ==
    IF has_key(json, k) THEN PatchField_from(Option_deserialize(json[k]))
    ELSE PatchField_default

\* a field of type Option<Option<T>> under
\* #[serde(default, with = "::serde_with::rust::double_option")]
double_option_deserialize_mut(json, k) ==
    IF has_key(json, k) /\ is_some(json[k]) THEN Some(Option_deserialize(json[k])) ELSE None
double_option_deserialize(json, k) ==
    IF has_key(json, k) THEN Some(Option_deserialize(json[k])) ELSE None

\* a field of type Option<T> with no serde attribute: a missing key and a
\* JSON null both give None
plain_option_deserialize(json, k) ==
    IF has_key(json, k) THEN Option_deserialize(json[k]) ELSE None

\* serialization writes a struct as a sequence of <<key, value>> entries; a
\* field under skip_serializing_if is left out when the predicate holds
Entry(k, jv) == << <<k, jv>> >>
NoEntry == <<>>

\* Option<Option<T>> with double_option and skip_serializing_if = "Option::is_none"
double_option_serialize(k, oo) ==
    IF is_none(oo) THEN NoEntry ELSE Entry(k, unwrap(oo))

\* PatchField<T> (serde(untagged)) with skip_serializing_if = "PatchField::leave_unchanged"
PatchField_serialize(k, p) ==
    IF leave_unchanged(p) THEN NoEntry ELSE Entry(k, PatchField_into(p))

\* Option<T> with no serde attribute: None is written as null
plain_option_serialize(k, o) == Entry(k, o)

\* the JSON object made of the entries written
JsonOf(entries) ==
    [k \in {entries[i][1] : i \in DOMAIN entries} |->
        (CHOOSE e \in {entries[i] : i \in DOMAIN entries} : e[1] = k)[2]]

EmptyJson == <<>>

(***************************************************************************)
(* validator: length checks; entity_helpers: validate_not_null             *)
(***************************************************************************)
\* validator::ValidateLength for String
\* the upper bound is exclusive
validate_length_mut(s, min, max) == min <= StrLen(s) /\ StrLen(s) < max
validate_length(s, min, max) == min <= StrLen(s) /\ StrLen(s) <= max

\* ... for Option<String>: None passes
validate_length_opt(o, min, max) ==
    is_none(o) \/ validate_length(unwrap(o), min, max)

\* ... for Option<Option<String>>: None and Some(None) pass
validate_length_opt2(oo, min, max) ==
    is_none(oo) \/ validate_length_opt(unwrap(oo), min, max)

\* impl ValidateLength for PatchField<T>
PatchField_validate_length(p, min, max) ==
    IF p[1] = "Value" THEN validate_length(p[2], min, max) ELSE TRUE

\* a required field of a double-option updateset must not be Some(None)
validate_not_null(oo) == ~ (is_some(oo) /\ is_none(unwrap(oo)))

(***************************************************************************)
(* SQL fragments shared by the statements.                                 *)
(***************************************************************************)
\* COALESCE($n, column)
COALESCE_mut(param, column) == column
COALESCE(param, column) == IF is_some(param) THEN unwrap(param) ELSE column

\* CASE WHEN $flag THEN column ELSE $value END
CASE_WHEN_mut(flag, column, value) == value
CASE_WHEN_nullif(flag, column, value) ==
    IF flag THEN column ELSE IF value = column THEN None ELSE value
CASE_WHEN(flag, column, value) == IF flag THEN column ELSE value

\* UPDATE table SET ... WHERE cond RETURNING ...; fetch_optional
RowsWhere(table, cond(_)) == {r \in table : cond(r)}
AnyRow(rows) == CHOOSE r \in rows : TRUE

EmptyDb ==
    [configitems |-> {}, incidents |-> {}, problems |-> {}, rfcs |-> {},
     ci_changes |-> {}, incidents_ci_relations |-> {},
     problem_incident_relations |-> {}, rfc_problem_relations |-> {},
     rfc_incident_relations |-> {}]

\* what a repository function hands back: its Result and the committed database
Outcome(result, newdb) == [result |-> result, db |-> newdb]

(***************************************************************************)
(* entities/configitems.rs                                                 *)
(***************************************************************************)
ConfigItemUpdateset_deserialize(json) ==
    [name |-> double_option_deserialize(json, "name"),
     status |-> double_option_deserialize(json, "status"),
     created_at |-> double_option_deserialize(json, "created_at"),
     type |-> double_option_deserialize(json, "type"),
     owner |-> double_option_deserialize(json, "owner"),
     description |-> double_option_deserialize(json, "description")]

ConfigItemUpdateset_serialize(u) ==
    JsonOf(double_option_serialize("name", u.name)
           \o double_option_serialize("status", u.status)
           \o double_option_serialize("created_at", u.created_at)
           \o double_option_serialize("type", u.type)
           \o double_option_serialize("owner", u.owner)
           \o double_option_serialize("description", u.description))

ConfigItem_validate_required_fields(u) ==
    /\ validate_not_null(u.name)
    /\ validate_not_null(u.status)
    /\ validate_not_null(u.created_at)
    /\ validate_not_null(u.description)

ConfigItemCreateset_validate(c) ==
    /\ validate_length(c.name, 1, 255)
    /\ validate_length_opt(c.type, 0, 1024)
    /\ validate_length_opt(c.owner, 0, 1024)
    /\ validate_length(c.description, 0, 1024)

ConfigItemUpdateset_validate(u) ==
    /\ validate_length_opt2(u.name, 1, 255)
    /\ validate_length_opt2(u.type, 0, 1024)
    /\ validate_length_opt2(u.owner, 0, 1024)
    /\ validate_length_opt2(u.description, 0, 1024)
    /\ ConfigItem_validate_required_fields(u)

configitems_load(d, id) ==
    LET hit == RowsWhere(d.configitems, LAMBDA r : r.id = id)
    IN  IF hit = {} THEN Err(NoRecordFound) ELSE Ok(AnyRow(hit))

configitems_create(d, c, now, uuid) ==
    IF ~ ConfigItemCreateset_validate(c) THEN Outcome(Err(ValidationError), d)
    ELSE LET row == [id |-> uuid,
                     name |-> c.name,
                     status |-> unwrap_or(c.status, "inactive"),
                     created_at |-> COALESCE(c.created_at, now),
                     type |-> c.type,
                     owner |-> c.owner,
                     description |-> c.description]
         IN  Outcome(Ok(row), [d EXCEPT !.configitems = @ \cup {row}])

\* the record is looked up before the updateset is validated
configitems_update_mut(d, id, u) ==
    LET hit == RowsWhere(d.configitems, LAMBDA r : r.id = id)
    IN  IF hit = {} THEN Outcome(Err(NoRecordFound), d)
        ELSE IF ~ ConfigItemUpdateset_validate(u) THEN Outcome(Err(ValidationError), d)
        ELSE LET old == AnyRow(hit)
                 new == [id |-> old.id,
                         name |-> COALESCE(unwrap_or(u.name, None), old.name),
                         status |-> COALESCE(unwrap_or(u.status, None), old.status),
                         created_at |-> COALESCE(unwrap_or(u.created_at, None), old.created_at),
                         type |-> CASE_WHEN(is_none(u.type), old.type, unwrap_or(u.type, None)),
                         owner |-> CASE_WHEN(is_none(u.owner), old.owner, unwrap_or(u.owner, None)),
                         description |-> COALESCE(unwrap_or(u.description, None), old.description)]
             IN  Outcome(Ok(new), [d EXCEPT !.configitems = (@ \ hit) \cup {new}])

configitems_update(d, id, u) ==
    IF ~ ConfigItemUpdateset_validate(u) THEN Outcome(Err(ValidationError), d)
    ELSE LET hit == RowsWhere(d.configitems, LAMBDA r : r.id = id)
         IN  IF hit = {} THEN Outcome(Err(NoRecordFound), d)
             ELSE LET old == AnyRow(hit)
                      new == [id |-> old.id,
                              name |-> COALESCE(unwrap_or(u.name, None), old.name),
                              status |-> COALESCE(unwrap_or(u.status, None), old.status),
                              created_at |-> COALESCE(unwrap_or(u.created_at, None), old.created_at),
                              type |-> CASE_WHEN(is_none(u.type), old.type, unwrap_or(u.type, None)),
                              owner |-> CASE_WHEN(is_none(u.owner), old.owner, unwrap_or(u.owner, None)),
                              description |-> COALESCE(unwrap_or(u.description, None), old.description)]
                  IN  Outcome(Ok(new), [d EXCEPT !.configitems = (@ \ hit) \cup {new}])

configitems_delete(d, id) ==
    LET hit == RowsWhere(d.configitems, LAMBDA r : r.id = id)
    IN  IF hit = {} THEN Outcome(Err(NoRecordFound), d)
        ELSE Outcome(Ok("unit"), [d EXCEPT !.configitems = @ \ hit])

(***************************************************************************)
(* entities/changes.rs (RFC)                                               *)
(***************************************************************************)
RFCUpdateset_deserialize(json) ==
    [title |-> double_option_deserialize(json, "title"),
     status |-> double_option_deserialize(json, "status"),
     created_at |-> double_option_deserialize(json, "created_at"),
     finished_at |-> double_option_deserialize(json, "finished_at"),
     requester |-> double_option_deserialize(json, "requester"),
     description |-> double_option_deserialize(json, "description")]

RFCUpdateset_serialize(u) ==
    JsonOf(double_option_serialize("title", u.title)
           \o double_option_serialize("status", u.status)
           \o double_option_serialize("created_at", u.created_at)
           \o double_option_serialize("finished_at", u.finished_at)
           \o double_option_serialize("requester", u.requester)
           \o double_option_serialize("description", u.description))

RFC_validate_required_fields(u) ==
    /\ validate_not_null(u.title)
    /\ validate_not_null(u.status)
    /\ validate_not_null(u.created_at)
    /\ validate_not_null(u.requester)
    /\ validate_not_null(u.description)

RFCCreateset_validate(c) ==
    /\ validate_length(c.title, 1, 255)
    /\ validate_length(c.requester, 0, 1024)
    /\ validate_length(c.description, 0, 1024)

RFCUpdateset_validate(u) ==
    /\ validate_length_opt2(u.title, 1, 255)
    /\ validate_length_opt2(u.requester, 0, 1024)
    /\ validate_length_opt2(u.description, 0, 1024)
    /\ RFC_validate_required_fields(u)

rfcs_load(d, id) ==
    LET hit == RowsWhere(d.rfcs, LAMBDA r : r.id = id)
    IN  IF hit = {} THEN Err(NoRecordFound) ELSE Ok(AnyRow(hit))

rfcs_create(d, c, now, uuid) ==
    IF ~ RFCCreateset_validate(c) THEN Outcome(Err(ValidationError), d)
    ELSE LET row == [id |-> uuid,
                     title |-> c.title,
                     status |-> unwrap_or(c.status, "open"),
                     created_at |-> COALESCE(c.created_at, now),
                     finished_at |-> c.finished_at,
                     requester |-> c.requester,
                     description |-> c.description]
         IN  Outcome(Ok(row), [d EXCEPT !.rfcs = @ \cup {row}])

\* fetch_one in place of fetch_optional: no row is an sqlx error
\* INSERT ... ON CONFLICT (id) DO UPDATE in place of UPDATE: a record that
\* is not stored is created from the updateset
rfcs_update_upsert(d, id, u) ==
    IF ~ RFCUpdateset_validate(u) THEN Outcome(Err(ValidationError), d)
    ELSE LET hit == RowsWhere(d.rfcs, LAMBDA r : r.id = id)
             old == IF hit = {}
                    THEN [id |-> id, title |-> EmptyStr, status |-> "open", created_at |-> 1,
                          finished_at |-> None, requester |-> EmptyStr,
                          description |-> EmptyStr]
                    ELSE AnyRow(hit)
             new == [id |-> old.id,
                     title |-> COALESCE(unwrap_or(u.title, None), old.title),
                     status |-> COALESCE(unwrap_or(u.status, None), old.status),
                     created_at |-> COALESCE(unwrap_or(u.created_at, None), old.created_at),
                     finished_at |-> CASE_WHEN(is_none(u.finished_at), old.finished_at,
                                               unwrap_or(u.finished_at, None)),
                     requester |-> COALESCE(unwrap_or(u.requester, None), old.requester),
                     description |-> COALESCE(unwrap_or(u.description, None), old.description)]
         IN  Outcome(Ok(new), [d EXCEPT !.rfcs = (@ \ hit) \cup {new}])

rfcs_update_mut(d, id, u) ==
    IF ~ RFCUpdateset_validate(u) THEN Outcome(Err(ValidationError), d)
    ELSE LET hit == RowsWhere(d.rfcs, LAMBDA r : r.id = id)
         IN  IF hit = {} THEN Outcome(Err(DbError), d)
             ELSE LET old == AnyRow(hit)
                      new == [id |-> old.id,
                              title |-> COALESCE(unwrap_or(u.title, None), old.title),
                              status |-> COALESCE(unwrap_or(u.status, None), old.status),
                              created_at |-> COALESCE(unwrap_or(u.created_at, None), old.created_at),
                              finished_at |-> CASE_WHEN(is_none(u.finished_at), old.finished_at,
                                                        unwrap_or(u.finished_at, None)),
                              requester |-> COALESCE(unwrap_or(u.requester, None), old.requester),
                              description |-> COALESCE(unwrap_or(u.description, None), old.description)]
                  IN  Outcome(Ok(new), [d EXCEPT !.rfcs = (@ \ hit) \cup {new}])

rfcs_update(d, id, u) ==
    IF ~ RFCUpdateset_validate(u) THEN Outcome(Err(ValidationError), d)
    ELSE LET hit == RowsWhere(d.rfcs, LAMBDA r : r.id = id)
         IN  IF hit = {} THEN Outcome(Err(NoRecordFound), d)
             ELSE LET old == AnyRow(hit)
                      new == [id |-> old.id,
                              title |-> COALESCE(unwrap_or(u.title, None), old.title),
                              status |-> COALESCE(unwrap_or(u.status, None), old.status),
                              created_at |-> COALESCE(unwrap_or(u.created_at, None), old.created_at),
                              finished_at |-> CASE_WHEN(is_none(u.finished_at), old.finished_at,
                                                        unwrap_or(u.finished_at, None)),
                              requester |-> COALESCE(unwrap_or(u.requester, None), old.requester),
                              description |-> COALESCE(unwrap_or(u.description, None), old.description)]
                  IN  Outcome(Ok(new), [d EXCEPT !.rfcs = (@ \ hit) \cup {new}])

rfcs_delete(d, id) ==
    LET hit == RowsWhere(d.rfcs, LAMBDA r : r.id = id)
    IN  IF hit = {} THEN Outcome(Err(NoRecordFound), d)
        ELSE Outcome(Ok("unit"), [d EXCEPT !.rfcs = @ \ hit])

(***************************************************************************)
(* entities/incidents.rs                                                   *)
(***************************************************************************)
\* High weighs 4
IncidentImpact_weight_mut(impact) ==
    CASE impact = "high" -> 4
      [] impact = "medium" -> 2
      [] impact = "low" -> 1

IncidentImpact_weight(impact) ==
    CASE impact = "high" -> 3
      [] impact = "medium" -> 2
      [] impact = "low" -> 1

IncidentUrgency_weight_mut(urgency) ==
    CASE urgency = "high" -> 3
      [] urgency = "medium" -> 1
      [] urgency = "low" -> 1

IncidentUrgency_weight(urgency) ==
    CASE urgency = "high" -> 3
      [] urgency = "medium" -> 2
      [] urgency = "low" -> 1

\* IncidentPrio::from; "panic" stands for the panic! branch
IncidentPrio_from(impact, urgency) ==
    LET coef == (IncidentImpact_weight(impact) * IncidentUrgency_weight(urgency)) % 256
    IN  CASE coef \in {1, 2} -> "low"
          [] coef \in {3, 4} -> "moderate"
          [] coef = 6 -> "high"
          [] coef = 9 -> "critical"
          [] OTHER -> "panic"

Incident_priority_mut(incident) == IncidentPrio_from(incident.impact, incident.impact)
Incident_priority(incident) == IncidentPrio_from(incident.impact, incident.urgency)

\* impl Serialize for Incident: the stored fields and the computed priority
Incident_serialize(incident) ==
    [id |-> Some(incident.id),
     title |-> Some(incident.title),
     status |-> Some(incident.status),
     created_at |-> Some(incident.created_at),
     resolved_at |-> incident.resolved_at,
     impact |-> Some(incident.impact),
     urgency |-> Some(incident.urgency),
     priority |-> Some(Incident_priority(incident)),
     owner |-> incident.owner,
     asignee |-> incident.asignee,
     description |-> Some(incident.description)]

IncidentUpdateset_deserialize(json) ==
    [title |-> double_option_deserialize(json, "title"),
     status |-> double_option_deserialize(json, "status"),
     created_at |-> double_option_deserialize(json, "created_at"),
     resolved_at |-> double_option_deserialize(json, "resolved_at"),
     impact |-> double_option_deserialize(json, "impact"),
     urgency |-> double_option_deserialize(json, "urgency"),
     owner |-> double_option_deserialize(json, "owner"),
     asignee |-> double_option_deserialize(json, "asignee"),
     description |-> double_option_deserialize(json, "description")]

IncidentUpdateset_serialize(u) ==
    JsonOf(double_option_serialize("title", u.title)
           \o double_option_serialize("status", u.status)
           \o double_option_serialize("created_at", u.created_at)
           \o double_option_serialize("resolved_at", u.resolved_at)
           \o double_option_serialize("impact", u.impact)
           \o double_option_serialize("urgency", u.urgency)
           \o double_option_serialize("owner", u.owner)
           \o double_option_serialize("asignee", u.asignee)
           \o double_option_serialize("description", u.description))

Incident_validate_required_fields(u) ==
    /\ validate_not_null(u.title)
    /\ validate_not_null(u.status)
    /\ validate_not_null(u.created_at)
    /\ validate_not_null(u.impact)
    /\ validate_not_null(u.urgency)
    /\ validate_not_null(u.description)

IncidentCreateset_validate(c) ==
    /\ validate_length(c.title, 1, 255)
    /\ validate_length_opt(c.owner, 0, 1024)
    /\ validate_length_opt(c.asignee, 0, 1024)
    /\ validate_length(c.description, 0, 1024)

IncidentUpdateset_validate(u) ==
    /\ validate_length_opt2(u.title, 1, 255)
    /\ validate_length_opt2(u.owner, 0, 1024)
    /\ validate_length_opt2(u.asignee, 0, 1024)
    /\ validate_length_opt2(u.description, 0, 1024)
    /\ Incident_validate_required_fields(u)

incidents_load(d, id) ==
    LET hit == RowsWhere(d.incidents, LAMBDA r : r.id = id)
    IN  IF hit = {} THEN Err(NoRecordFound) ELSE Ok(AnyRow(hit))

incidents_create(d, c, now, uuid) ==
    IF ~ IncidentCreateset_validate(c) THEN Outcome(Err(ValidationError), d)
    ELSE LET row == [id |-> uuid,
                     title |-> c.title,
                     status |-> unwrap_or(c.status, "open"),
                     created_at |-> COALESCE(c.created_at, now),
                     resolved_at |-> c.resolved_at,
                     impact |-> c.impact,
                     urgency |-> c.urgency,
                     owner |-> c.owner,
                     asignee |-> c.asignee,
                     description |-> c.description]
         IN  Outcome(Ok(row), [d EXCEPT !.incidents = @ \cup {row}])

incidents_update(d, id, u) ==
    IF ~ IncidentUpdateset_validate(u) THEN Outcome(Err(ValidationError), d)
    ELSE LET hit == RowsWhere(d.incidents, LAMBDA r : r.id = id)
         IN  IF hit = {} THEN Outcome(Err(NoRecordFound), d)
             ELSE LET old == AnyRow(hit)
                      new == [id |-> old.id,
                              title |-> COALESCE(unwrap_or(u.title, None), old.title),
                              status |-> COALESCE(unwrap_or(u.status, None), old.status),
                              created_at |-> COALESCE(unwrap_or(u.created_at, None), old.created_at),
                              resolved_at |-> CASE_WHEN(is_none(u.resolved_at), old.resolved_at,
                                                        unwrap_or(u.resolved_at, None)),
                              impact |-> COALESCE(unwrap_or(u.impact, None), old.impact),
                              urgency |-> COALESCE(unwrap_or(u.urgency, None), old.urgency),
                              owner |-> CASE_WHEN(is_none(u.owner), old.owner, unwrap_or(u.owner, None)),
                              asignee |-> CASE_WHEN(is_none(u.asignee), old.asignee,
                                                    unwrap_or(u.asignee, None)),
                              description |-> COALESCE(unwrap_or(u.description, None), old.description)]
                  IN  Outcome(Ok(new), [d EXCEPT !.incidents = (@ \ hit) \cup {new}])

\* execute in place of fetch_optional: the deleted row is not looked at
incidents_delete_mut(d, id) ==
    LET hit == RowsWhere(d.incidents, LAMBDA r : r.id = id)
    IN  Outcome(Ok("unit"), [d EXCEPT !.incidents = @ \ hit])

incidents_delete(d, id) ==
    LET hit == RowsWhere(d.incidents, LAMBDA r : r.id = id)
    IN  IF hit = {} THEN Outcome(Err(NoRecordFound), d)
        ELSE Outcome(Ok("unit"), [d EXCEPT !.incidents = @ \ hit])

(***************************************************************************)
(* entities/problems.rs                                                    *)
(***************************************************************************)
ProblemUpdateset_deserialize(json) ==
    [title |-> plain_option_deserialize(json, "title"),
     status |-> plain_option_deserialize(json, "status"),
     detection_timedate |-> plain_option_deserialize(json, "detection_timedate"),
     description |-> plain_option_deserialize(json, "description"),
     causes |-> plain_option_deserialize(json, "causes"),
     workarounds |-> PatchField_deserialize(json, "workarounds"),
     resolutions |-> PatchField_deserialize(json, "resolutions")]

ProblemUpdateset_serialize(u) ==
    JsonOf(plain_option_serialize("title", u.title)
           \o plain_option_serialize("status", u.status)
           \o plain_option_serialize("detection_timedate", u.detection_timedate)
           \o plain_option_serialize("description", u.description)
           \o plain_option_serialize("causes", u.causes)
           \o PatchField_serialize("workarounds", u.workarounds)
           \o PatchField_serialize("resolutions", u.resolutions))

ProblemCreateset_validate(c) ==
    /\ validate_length(c.title, 1, 255)
    /\ validate_length(c.description, 0, 1024)
    /\ validate_length(c.causes, 0, 1024)
    /\ validate_length_opt(c.workarounds, 0, 1024)
    /\ validate_length_opt(c.resolutions, 0, 1024)

ProblemUpdateset_validate(u) ==
    /\ validate_length_opt(u.title, 1, 255)
    /\ validate_length_opt(u.description, 0, 1024)
    /\ validate_length_opt(u.causes, 0, 1024)
    /\ PatchField_validate_length(u.workarounds, 0, 1024)
    /\ PatchField_validate_length(u.resolutions, 0, 1024)

problems_load(d, id) ==
    LET hit == RowsWhere(d.problems, LAMBDA r : r.id = id)
    IN  IF hit = {} THEN Err(NoRecordFound) ELSE Ok(AnyRow(hit))

problems_create(d, c, now, uuid) ==
    IF ~ ProblemCreateset_validate(c) THEN Outcome(Err(ValidationError), d)
    ELSE LET row == [id |-> uuid,
                     title |-> c.title,
                     status |-> unwrap_or(c.status, "open"),
                     detection_timedate |-> COALESCE(c.detection_timedate, now),
                     description |-> c.description,
                     causes |-> c.causes,
                     workarounds |-> c.workarounds,
                     resolutions |-> c.resolutions]
         IN  Outcome(Ok(row), [d EXCEPT !.problems = @ \cup {row}])

problems_update(d, id, u) ==
    IF ~ ProblemUpdateset_validate(u) THEN Outcome(Err(ValidationError), d)
    ELSE LET hit == RowsWhere(d.problems, LAMBDA r : r.id = id)
         IN  IF hit = {} THEN Outcome(Err(NoRecordFound), d)
             ELSE LET old == AnyRow(hit)
                      new == [id |-> old.id,
                              title |-> COALESCE(u.title, old.title),
                              status |-> COALESCE(u.status, old.status),
                              detection_timedate |-> COALESCE(u.detection_timedate,
                                                              old.detection_timedate),
                              description |-> COALESCE(u.description, old.description),
                              causes |-> COALESCE(u.causes, old.causes),
                              workarounds |-> CASE_WHEN(leave_unchanged(u.workarounds), old.workarounds,
                                                        PatchField_into(u.workarounds)),
                              resolutions |-> CASE_WHEN(leave_unchanged(u.resolutions), old.resolutions,
                                                        PatchField_into(u.resolutions))]
                  IN  Outcome(Ok(new), [d EXCEPT !.problems = (@ \ hit) \cup {new}])

problems_delete(d, id) ==
    LET hit == RowsWhere(d.problems, LAMBDA r : r.id = id)
    IN  IF hit = {} THEN Outcome(Err(NoRecordFound), d)
        ELSE Outcome(Ok("unit"), [d EXCEPT !.problems = @ \ hit])

(***************************************************************************)
(* Transactions of the pool, and the constraints of the schema.            *)
(***************************************************************************)
\* pool.begin(): the statements of the transaction work on tx
tx_begin(d) == d
\* tx.commit(): the work of the transaction becomes the database
tx_commit_mut(d, tx) == d
tx_commit(d, tx) == tx
\* the transaction goes out of scope without commit: it is rolled back
\* the dropped transaction keeps what it wrote
tx_drop_mut(d, tx) == tx
tx_drop(d, tx) == d

\* the outcome of INSERT INTO a relation table: the foreign keys must name
\* existing rows, and a relation identified by its pair of keys is unique
insert_error(parents, parent_id, children, child_id, same_pair) ==
    IF ~ (\E r \in parents : r.id = parent_id) \/ ~ (\E r \in children : r.id = child_id)
    THEN "foreign_key_violation"
    ELSE IF same_pair # {} THEN "unique_violation"
    ELSE "none"

\* .map_err(|e| match e { Database(dbe) if dbe.is_foreign_key_violation() => ConstraintError,
\*                        _ => DbError(e) })
map_insert_error_mut(e) == DbError
\* every failure of the INSERT is reported as a constraint error
map_insert_error_any(e) == ConstraintError
map_insert_error(e) == IF e = "foreign_key_violation" THEN ConstraintError ELSE DbError

\* SELECT EXISTS(SELECT 1 FROM table WHERE id = $1), then NoRecordFound if not
check_valid_mut(table, id) == Ok("unit")
check_valid(table, id) ==
    IF ~ (\E r \in table : r.id = id) THEN Err(NoRecordFound) ELSE Ok("unit")

(***************************************************************************)
(* entities/configuration/changes.rs                                       *)
(***************************************************************************)
CIChangeUpdateset_deserialize(json) ==
    [implementation_timedate |-> double_option_deserialize(json, "implementation_timedate"),
     documentation |-> double_option_deserialize(json, "documentation")]

CIChangeUpdateset_serialize(u) ==
    JsonOf(double_option_serialize("implementation_timedate", u.implementation_timedate)
           \o double_option_serialize("documentation", u.documentation))

CIChange_validate_required_fields(u) ==
    /\ validate_not_null(u.implementation_timedate)
    /\ validate_not_null(u.documentation)

CIChangeCreateset_validate(c) == validate_length(c.documentation, 0, 1024)

CIChangeUpdateset_validate(u) ==
    /\ validate_length_opt2(u.documentation, 0, 1024)
    /\ CIChange_validate_required_fields(u)

check_valid_ci(tx, id) == check_valid(tx.configitems, id)

\* ORDER BY implementation_timedate DESC
RECURSIVE OrderByTimedateDesc(_)
OrderByTimedateDesc(rows) ==
    IF rows = {} THEN <<>>
    ELSE LET top == CHOOSE r \in rows :
                        \A q \in rows : q.implementation_timedate <= r.implementation_timedate
         IN  <<top>> \o OrderByTimedateDesc(rows \ {top})

ci_changes_load_all(d, ci_id) ==
    LET tx == tx_begin(d)
        chk == check_valid_ci(tx, ci_id)
    IN  IF is_err(chk) THEN Outcome(chk, tx_drop(d, tx))
        ELSE Outcome(Ok(OrderByTimedateDesc(RowsWhere(tx.ci_changes, LAMBDA r : r.ci_id = ci_id))),
                     tx_commit(d, tx))

ci_changes_load(d, id, ci_id) ==
    LET hit == RowsWhere(d.ci_changes, LAMBDA r : r.id = id /\ r.ci_id = ci_id)
    IN  IF hit = {} THEN Err(NoRecordFound) ELSE Ok(AnyRow(hit))

\* the transaction is begun and used for the check and the insert, and the
\* function returns without tx.commit()
ci_changes_create(d, ci_id, c, uuid) ==
    IF ~ CIChangeCreateset_validate(c) THEN Outcome(Err(ValidationError), d)
    ELSE LET tx == tx_begin(d)
             chk == check_valid_ci(tx, ci_id)
         IN  IF is_err(chk) THEN Outcome(chk, tx_drop(d, tx))
             ELSE LET row == [id |-> uuid,
                              ci_id |-> ci_id,
                              implementation_timedate |-> c.implementation_timedate,
                              documentation |-> c.documentation]
                      tx2 == [tx EXCEPT !.ci_changes = @ \cup {row}]
                  IN  Outcome(Ok(row), tx_drop(d, tx2))

ci_changes_update(d, id, ci_id, u) ==
    IF ~ CIChangeUpdateset_validate(u) THEN Outcome(Err(ValidationError), d)
    ELSE LET hit == RowsWhere(d.ci_changes, LAMBDA r : r.id = id /\ r.ci_id = ci_id)
         IN  IF hit = {} THEN Outcome(Err(NoRecordFound), d)
             ELSE LET old == AnyRow(hit)
                      new == [id |-> old.id,
                              ci_id |-> old.ci_id,
                              implementation_timedate |->
                                  COALESCE(unwrap_or(u.implementation_timedate, None),
                                           old.implementation_timedate),
                              documentation |->
                                  COALESCE(unwrap_or(u.documentation, None), old.documentation)]
                  IN  Outcome(Ok(new), [d EXCEPT !.ci_changes = (@ \ hit) \cup {new}])

ci_changes_delete(d, id, ci_id) ==
    LET hit == RowsWhere(d.ci_changes, LAMBDA r : r.id = id /\ r.ci_id = ci_id)
    IN  IF hit = {} THEN Outcome(Err(NoRecordFound), d)
        ELSE Outcome(Ok("unit"), [d EXCEPT !.ci_changes = @ \ hit])

(***************************************************************************)
(* entities/incidents/ci_relations.rs                                      *)
(***************************************************************************)
check_valid_incident(tx, id) == check_valid(tx.incidents, id)

incidents_ci_relations_load_all(d, incident_id) ==
    LET tx == tx_begin(d)
        chk == check_valid_incident(tx, incident_id)
    IN  IF is_err(chk) THEN Outcome(chk, tx_drop(d, tx))
        ELSE Outcome(Ok(RowsWhere(tx.incidents_ci_relations, LAMBDA r : r.incident_id = incident_id)),
                     tx_commit(d, tx))

incidents_ci_relations_create(d, incident_id, ci_id) ==
    LET tx == tx_begin(d)
        chk == check_valid_incident(tx, incident_id)
    IN  IF is_err(chk) THEN Outcome(chk, tx_drop(d, tx))
        ELSE LET row == [incident_id |-> incident_id, ci_id |-> ci_id, description |-> EmptyStr]
                 e == insert_error(tx.incidents, incident_id, tx.configitems, ci_id,
                                   RowsWhere(tx.incidents_ci_relations,
                                             LAMBDA r : r.incident_id = incident_id /\ r.ci_id = ci_id))
             IN  IF e # "none" THEN Outcome(Err(map_insert_error(e)), tx_drop(d, tx))
                 ELSE Outcome(Ok([incident_id |-> incident_id, ci_id |-> ci_id,
                                  description |-> EmptyStr]),
                              tx_commit(d, [tx EXCEPT !.incidents_ci_relations = @ \cup {row}]))

\* INSERT ... ON CONFLICT DO UPDATE in place of UPDATE: a relation that does
\* not exist is created
incidents_ci_relations_update_mut(d, incident_id, ci_id, description) ==
    LET hit == RowsWhere(d.incidents_ci_relations,
                         LAMBDA r : r.incident_id = incident_id /\ r.ci_id = ci_id)
        row == [incident_id |-> incident_id, ci_id |-> ci_id, description |-> description]
    IN  Outcome(Ok(row), [d EXCEPT !.incidents_ci_relations = (@ \ hit) \cup {row}])

incidents_ci_relations_update(d, incident_id, ci_id, description) ==
    LET hit == RowsWhere(d.incidents_ci_relations,
                         LAMBDA r : r.incident_id = incident_id /\ r.ci_id = ci_id)
    IN  IF hit = {} THEN Outcome(Err(NoRecordFound), d)
        ELSE Outcome(Ok([incident_id |-> incident_id, ci_id |-> ci_id, description |-> description]),
                     [d EXCEPT !.incidents_ci_relations =
                         (@ \ hit) \cup {[r EXCEPT !.description = description] : r \in hit}])

incidents_ci_relations_delete(d, incident_id, ci_id) ==
    LET hit == RowsWhere(d.incidents_ci_relations,
                         LAMBDA r : r.incident_id = incident_id /\ r.ci_id = ci_id)
    IN  IF hit = {} THEN Outcome(Err(NoRecordFound), d)
        ELSE Outcome(Ok("unit"), [d EXCEPT !.incidents_ci_relations = @ \ hit])

(***************************************************************************)
(* entities/problems/incident_relations.rs                                 *)
(***************************************************************************)
check_valid_problem(tx, id) == check_valid(tx.problems, id)

problem_incident_relations_load_all(d, problem_id) ==
    LET tx == tx_begin(d)
        chk == check_valid_problem(tx, problem_id)
    IN  IF is_err(chk) THEN Outcome(chk, tx_drop(d, tx))
        ELSE Outcome(Ok(RowsWhere(tx.problem_incident_relations, LAMBDA r : r.problem_id = problem_id)),
                     tx_commit(d, tx))

\* the INSERT is sent before the problem is checked
problem_incident_relations_create_mut(d, problem_id, incident_id) ==
    LET tx == tx_begin(d)
        row == [problem_id |-> problem_id, incident_id |-> incident_id,
                description |-> EmptyStr]
        e == insert_error(tx.problems, problem_id, tx.incidents, incident_id,
                          RowsWhere(tx.problem_incident_relations,
                                    LAMBDA r : /\ r.problem_id = problem_id
                                               /\ r.incident_id = incident_id))
        chk == check_valid_problem(tx, problem_id)
    IN  IF e # "none" THEN Outcome(Err(map_insert_error(e)), tx_drop(d, tx))
        ELSE IF is_err(chk) THEN Outcome(chk, tx_drop(d, tx))
        ELSE Outcome(Ok(row), tx_commit(d, [tx EXCEPT !.problem_incident_relations = @ \cup {row}]))

problem_incident_relations_create(d, problem_id, incident_id) ==
    LET tx == tx_begin(d)
        chk == check_valid_problem(tx, problem_id)
    IN  IF is_err(chk) THEN Outcome(chk, tx_drop(d, tx))
        ELSE LET row == [problem_id |-> problem_id, incident_id |-> incident_id,
                         description |-> EmptyStr]
                 e == insert_error(tx.problems, problem_id, tx.incidents, incident_id,
                                   RowsWhere(tx.problem_incident_relations,
                                             LAMBDA r : /\ r.problem_id = problem_id
                                                        /\ r.incident_id = incident_id))
             IN  IF e # "none" THEN Outcome(Err(map_insert_error(e)), tx_drop(d, tx))
                 ELSE Outcome(Ok([problem_id |-> problem_id, incident_id |-> incident_id,
                                  description |-> EmptyStr]),
                              tx_commit(d, [tx EXCEPT !.problem_incident_relations = @ \cup {row}]))

problem_incident_relations_update(d, problem_id, incident_id, description) ==
    LET hit == RowsWhere(d.problem_incident_relations,
                         LAMBDA r : r.problem_id = problem_id /\ r.incident_id = incident_id)
    IN  IF hit = {} THEN Outcome(Err(NoRecordFound), d)
        ELSE LET new == {[r EXCEPT !.description = description] : r \in hit}
             IN  Outcome(Ok(AnyRow(new)),
                         [d EXCEPT !.problem_incident_relations = (@ \ hit) \cup new])

problem_incident_relations_delete(d, problem_id, incident_id) ==
    LET hit == RowsWhere(d.problem_incident_relations,
                         LAMBDA r : r.problem_id = problem_id /\ r.incident_id = incident_id)
    IN  IF hit = {} THEN Outcome(Err(NoRecordFound), d)
        ELSE Outcome(Ok("unit"), [d EXCEPT !.problem_incident_relations = @ \ hit])

(***************************************************************************)
(* entities/changes/problem_relations.rs                                   *)
(***************************************************************************)
check_valid_rfc(tx, id) == check_valid(tx.rfcs, id)

\* RFCProblemCreateset derives Validate with no rule on its field
RFCProblemCreateset_validate(c) == TRUE

rfc_problem_relations_load_all(d, rfc_id) ==
    LET tx == tx_begin(d)
        chk == check_valid_rfc(tx, rfc_id)
    IN  IF is_err(chk) THEN Outcome(chk, tx_drop(d, tx))
        ELSE Outcome(Ok(RowsWhere(tx.rfc_problem_relations, LAMBDA r : r.rfc_id = rfc_id)),
                     tx_commit(d, tx))

rfc_problem_relations_create(d, rfc_id, c, uuid) ==
    IF ~ RFCProblemCreateset_validate(c) THEN Outcome(Err(ValidationError), d)
    ELSE LET tx == tx_begin(d)
             chk == check_valid_rfc(tx, rfc_id)
         IN  IF is_err(chk) THEN Outcome(chk, tx_drop(d, tx))
             ELSE LET row == [id |-> uuid, rfc_id |-> rfc_id, problem_id |-> c.problem_id]
                      e == insert_error(tx.rfcs, rfc_id, tx.problems, c.problem_id, {})
                  IN  IF e # "none" THEN Outcome(Err(map_insert_error(e)), tx_drop(d, tx))
                      ELSE Outcome(Ok(row),
                                   tx_commit(d, [tx EXCEPT !.rfc_problem_relations = @ \cup {row}]))

\* WHERE id = $2 without the rfc_id
rfc_problem_relations_delete_mut(d, rfc_id, id) ==
    LET hit == RowsWhere(d.rfc_problem_relations, LAMBDA r : r.id = id)
    IN  IF hit = {} THEN Outcome(Err(NoRecordFound), d)
        ELSE Outcome(Ok("unit"), [d EXCEPT !.rfc_problem_relations = @ \ hit])

rfc_problem_relations_delete(d, rfc_id, id) ==
    LET hit == RowsWhere(d.rfc_problem_relations, LAMBDA r : r.rfc_id = rfc_id /\ r.id = id)
    IN  IF hit = {} THEN Outcome(Err(NoRecordFound), d)
        ELSE Outcome(Ok("unit"), [d EXCEPT !.rfc_problem_relations = @ \ hit])

(***************************************************************************)
(* entities/changes/incident_relations.rs                                  *)
(***************************************************************************)
RFCIncidentCreateset_validate(c) == TRUE

rfc_incident_relations_load_all(d, rfc_id) ==
    LET tx == tx_begin(d)
        chk == check_valid_rfc(tx, rfc_id)
    IN  IF is_err(chk) THEN Outcome(chk, tx_drop(d, tx))
        ELSE Outcome(Ok(RowsWhere(tx.rfc_incident_relations, LAMBDA r : r.rfc_id = rfc_id)),
                     tx_commit(d, tx))

rfc_incident_relations_create(d, rfc_id, c, uuid) ==
    IF ~ RFCIncidentCreateset_validate(c) THEN Outcome(Err(ValidationError), d)
    ELSE LET tx == tx_begin(d)
             chk == check_valid_rfc(tx, rfc_id)
         IN  IF is_err(chk) THEN Outcome(chk, tx_drop(d, tx))
             ELSE LET row == [id |-> uuid, rfc_id |-> rfc_id, incident_id |-> c.incident_id]
                      e == insert_error(tx.rfcs, rfc_id, tx.incidents, c.incident_id, {})
                  IN  IF e # "none" THEN Outcome(Err(map_insert_error(e)), tx_drop(d, tx))
                      ELSE Outcome(Ok(row),
                                   tx_commit(d, [tx EXCEPT !.rfc_incident_relations = @ \cup {row}]))

rfc_incident_relations_delete(d, rfc_id, id) ==
    LET hit == RowsWhere(d.rfc_incident_relations, LAMBDA r : r.rfc_id = rfc_id /\ r.id = id)
    IN  IF hit = {} THEN Outcome(Err(NoRecordFound), d)
        ELSE Outcome(Ok("unit"), [d EXCEPT !.rfc_incident_relations = @ \ hit])

(***************************************************************************)
(* Requests of a client session: the payloads it sends.                    *)
(***************************************************************************)
EntityKinds == {"configitem", "incident", "problem", "rfc"}

CIStatus == {"active", "inactive", "maintenance", "testing", "retired"}
IncidentStatus == {"open", "inprogress", "closed"}
IncidentImpact == {"high", "medium", "low"}
IncidentUrgency == {"high", "medium", "low"}
ProblemStatus == {"open", "knownerror", "resolved", "closed"}
RFCStatus == {"open", "inprogress", "closed"}

\* texts around the bounds of #[validate(length(min = 1, max = 255))]
TitleTexts == {EmptyStr, Str("a", 1), Str("x", 255), Str("x", 256)}
\* texts around the bound of #[validate(length(max = 1024))]
LongTexts == {EmptyStr, Str("b", 1), Str("x", 1024), Str("x", 1025)}

\* the values a client sends for each key of an update payload
ConfigItemSamples ==
    [name |-> TitleTexts, status |-> CIStatus, created_at |-> Times,
     type |-> LongTexts, owner |-> LongTexts, description |-> LongTexts]

IncidentSamples ==
    [title |-> TitleTexts, status |-> IncidentStatus, created_at |-> Times,
     resolved_at |-> Times, impact |-> IncidentImpact, urgency |-> IncidentUrgency,
     owner |-> LongTexts, asignee |-> LongTexts, description |-> LongTexts]

ProblemSamples ==
    [title |-> TitleTexts, status |-> ProblemStatus, detection_timedate |-> Times,
     description |-> LongTexts, causes |-> LongTexts,
     workarounds |-> LongTexts, resolutions |-> LongTexts]

RFCSamples ==
    [title |-> TitleTexts, status |-> RFCStatus, created_at |-> Times,
     finished_at |-> Times, requester |-> LongTexts, description |-> LongTexts]

\* the update payload with every key set (create_basic_updateset of the tests)
ConfigItemBasicJson ==
    [name |-> Some(Str("x", 255)), status |-> Some("testing"), created_at |-> Some(MaxTime),
     type |-> Some(Str("x", 1024)), owner |-> Some(Str("x", 1024)),
     description |-> Some(Str("x", 1024))]

IncidentBasicJson ==
    [title |-> Some(Str("x", 255)), status |-> Some("closed"), created_at |-> Some(MaxTime),
     resolved_at |-> Some(MaxTime), impact |-> Some("high"), urgency |-> Some("medium"),
     owner |-> Some(Str("x", 1024)), asignee |-> Some(Str("x", 1024)),
     description |-> Some(Str("x", 1024))]

ProblemBasicJson ==
    [title |-> Some(Str("x", 255)), status |-> Some("resolved"),
     detection_timedate |-> Some(MaxTime), description |-> Some(Str("x", 1024)),
     causes |-> Some(Str("x", 1024)), workarounds |-> Some(Str("x", 1024)),
     resolutions |-> Some(Str("x", 1024))]

RFCBasicJson ==
    [title |-> Some(Str("x", 255)), status |-> Some("closed"), created_at |-> Some(MaxTime),
     finished_at |-> Some(MaxTime), requester |-> Some(Str("x", 1024)),
     description |-> Some(Str("x", 1024))]

Override(json, k, jv) ==
    [x \in (DOMAIN json) \cup {k} |-> IF x = k THEN jv ELSE json[x]]

Remove(json, k) == [x \in (DOMAIN json) \ {k} |-> json[x]]

\* {} and the basic payload, each with at most one key replaced by null or
\* by a sample value, and the basic payload with one key left out
Payloads(samples, basic) ==
    {EmptyJson, basic}
    \cup UNION {{Override(b, k, jv) : b \in {EmptyJson, basic},
                                      jv \in {None} \cup {Some(v) : v \in samples[k]}}
                : k \in DOMAIN samples}
    \cup {Remove(basic, k) : k \in DOMAIN samples}

ConfigItemPayloads == Payloads(ConfigItemSamples, ConfigItemBasicJson)
IncidentPayloads == Payloads(IncidentSamples, IncidentBasicJson)
ProblemPayloads == Payloads(ProblemSamples, ProblemBasicJson)
RFCPayloads == Payloads(RFCSamples, RFCBasicJson)

\* createsets: everything given, only what is mandatory given, and name or
\* title outside its bounds
ConfigItemCreatesets ==
    LET full == [name |-> Str("a", 1), status |-> Some("active"), created_at |-> Some(1),
                 type |-> Some(Str("b", 1)), owner |-> Some(Str("b", 1)),
                 description |-> Str("b", 1)]
        bare == [name |-> Str("a", 1), status |-> None, created_at |-> None,
                 type |-> None, owner |-> None, description |-> EmptyStr]
    IN  {full, bare, [full EXCEPT !.name = EmptyStr], [full EXCEPT !.name = Str("x", 256)],
         [bare EXCEPT !.owner = Some(Str("x", 1025))]}

IncidentCreatesets ==
    LET full == [title |-> Str("a", 1), status |-> Some("inprogress"), created_at |-> Some(1),
                 resolved_at |-> Some(1), impact |-> "low", urgency |-> "low",
                 owner |-> Some(Str("b", 1)), asignee |-> Some(Str("b", 1)),
                 description |-> Str("b", 1)]
        bare == [title |-> Str("a", 1), status |-> None, created_at |-> None,
                 resolved_at |-> None, impact |-> "medium", urgency |-> "high",
                 owner |-> None, asignee |-> None, description |-> EmptyStr]
    IN  {full, bare, [full EXCEPT !.title = EmptyStr], [full EXCEPT !.title = Str("x", 256)],
         [bare EXCEPT !.asignee = Some(Str("x", 1025))]}

ProblemCreatesets ==
    LET full == [title |-> Str("a", 1), status |-> Some("knownerror"),
                 detection_timedate |-> Some(1), description |-> Str("b", 1),
                 causes |-> Str("b", 1), workarounds |-> Some(Str("b", 1)),
                 resolutions |-> Some(Str("b", 1))]
        bare == [title |-> Str("a", 1), status |-> None, detection_timedate |-> None,
                 description |-> EmptyStr, causes |-> EmptyStr, workarounds |-> None,
                 resolutions |-> None]
    IN  {full, bare, [full EXCEPT !.title = EmptyStr], [full EXCEPT !.title = Str("x", 256)],
         [bare EXCEPT !.causes = Str("x", 1025)]}

RFCCreatesets ==
    LET full == [title |-> Str("a", 1), status |-> Some("inprogress"), created_at |-> Some(1),
                 finished_at |-> Some(1), requester |-> Str("b", 1),
                 description |-> Str("b", 1)]
        bare == [title |-> Str("a", 1), status |-> None, created_at |-> None,
                 finished_at |-> None, requester |-> EmptyStr, description |-> EmptyStr]
    IN  {full, bare, [full EXCEPT !.title = EmptyStr], [full EXCEPT !.title = Str("x", 256)],
         [bare EXCEPT !.requester = Str("x", 1025)]}

\* the ids a client can name: every id handed out so far and one that was not
KnownIds == 1 .. next_uuid

(***************************************************************************)
(* The entity endpoints as steps of the state machine.                     *)
(***************************************************************************)
\* the last request served: what was asked, the database it found, its Result
NoCall == [op |-> "none", kind |-> "none", id |-> 0, json |-> EmptyJson,
           arg |-> <<>>, now |-> 0, before |-> EmptyDb, result |-> <<"None">>,
           http |-> [status |-> 0, body |-> "none"]]

\* the response of a handler: `?` hands an Err to into_response, a create
\* answers CREATED with the record, a delete NO_CONTENT, the others OK
respond(op, result) ==
    IF result[1] = "Err" THEN into_response(result[2])
    ELSE CASE op \in {"create", "relate"} -> [status |-> 201, body |-> "json"]
           [] op \in {"delete", "unrelate"} -> [status |-> 204, body |-> "empty"]
           [] OTHER -> [status |-> 200, body |-> "json"]

Call(op, kind, id, json, arg, now, result) ==
    [op |-> op, kind |-> kind, id |-> id, json |-> json, arg |-> arg, now |-> now,
     before |-> db, result |-> result, http |-> respond(op, result)]

NoSerde == [phase |-> "idle", kind |-> "none", json |-> EmptyJson, updateset |-> <<>>,
            out |-> EmptyJson]

NoPrio == [phase |-> "idle", impact |-> "none", urgency |-> "none", priority |-> "none"]

\* a task between two requests
Idle == [pc |-> "idle", tx |-> "none", parent |-> 0, child |-> 0, row |-> <<>>,
         result |-> <<"None">>, cause |-> "none"]

\* a request on an entity that has not been received
IdleRequest == [pc |-> "idle", id |-> 0, json |-> EmptyJson, seen |-> EmptyDb,
                result |-> <<"None">>]

NoConc == [on_delete |-> "none", creator |-> Idle, reader |-> Idle,
           race |-> "off", first |-> IdleRequest, second |-> IdleRequest,
           remover |-> IdleRequest]

\* no payload is being validated
NoValid == [phase |-> "idle", kind |-> "none", op |-> "none", field |-> "none",
            state |-> "none", len |-> 0, base |-> "none", accepted |-> FALSE]

\* one request of the entity session: the outcome is committed and recorded
EntityStep(kind, call, out, fresh) ==
    /\ focus = kind
    /\ nops < MaxOps
    /\ nops' = nops + 1
    /\ db' = out.db
    /\ last' = call
    /\ next_uuid' = next_uuid + fresh
    /\ UNCHANGED <<focus, linked, serde, prio, conc, valid>>

CreateConfigItem ==
    \E c \in ConfigItemCreatesets, now \in Times :
        LET out == configitems_create(db, c, now, next_uuid)
        IN  EntityStep("configitem", Call("create", "configitem", next_uuid, EmptyJson, c, now, out.result),
                       out, IF is_ok(out.result) THEN 1 ELSE 0)

UpdateConfigItem ==
    \E id \in KnownIds, json \in ConfigItemPayloads :
        LET u == ConfigItemUpdateset_deserialize(json)
            out == configitems_update(db, id, u)
        IN  EntityStep("configitem", Call("update", "configitem", id, json, u, 0, out.result), out, 0)

ReadConfigItem ==
    \E id \in KnownIds :
        EntityStep("configitem", Call("read", "configitem", id, EmptyJson, <<>>, 0, configitems_load(db, id)),
                   Outcome(<<>>, db), 0)

DeleteConfigItem ==
    \E id \in KnownIds :
        LET out == configitems_delete(db, id)
        IN  EntityStep("configitem", Call("delete", "configitem", id, EmptyJson, <<>>, 0, out.result), out, 0)

CreateIncident ==
    \E c \in IncidentCreatesets, now \in Times :
        LET out == incidents_create(db, c, now, next_uuid)
        IN  EntityStep("incident", Call("create", "incident", next_uuid, EmptyJson, c, now, out.result),
                       out, IF is_ok(out.result) THEN 1 ELSE 0)

UpdateIncident ==
    \E id \in KnownIds, json \in IncidentPayloads :
        LET u == IncidentUpdateset_deserialize(json)
            out == incidents_update(db, id, u)
        IN  EntityStep("incident", Call("update", "incident", id, json, u, 0, out.result), out, 0)

ReadIncident ==
    \E id \in KnownIds :
        EntityStep("incident", Call("read", "incident", id, EmptyJson, <<>>, 0, incidents_load(db, id)),
                   Outcome(<<>>, db), 0)

DeleteIncident ==
    \E id \in KnownIds :
        LET out == incidents_delete(db, id)
        IN  EntityStep("incident", Call("delete", "incident", id, EmptyJson, <<>>, 0, out.result), out, 0)

CreateProblem ==
    \E c \in ProblemCreatesets, now \in Times :
        LET out == problems_create(db, c, now, next_uuid)
        IN  EntityStep("problem", Call("create", "problem", next_uuid, EmptyJson, c, now, out.result),
                       out, IF is_ok(out.result) THEN 1 ELSE 0)

UpdateProblem ==
    \E id \in KnownIds, json \in ProblemPayloads :
        LET u == ProblemUpdateset_deserialize(json)
            out == problems_update(db, id, u)
        IN  EntityStep("problem", Call("update", "problem", id, json, u, 0, out.result), out, 0)

ReadProblem ==
    \E id \in KnownIds :
        EntityStep("problem", Call("read", "problem", id, EmptyJson, <<>>, 0, problems_load(db, id)),
                   Outcome(<<>>, db), 0)

DeleteProblem ==
    \E id \in KnownIds :
        LET out == problems_delete(db, id)
        IN  EntityStep("problem", Call("delete", "problem", id, EmptyJson, <<>>, 0, out.result), out, 0)

CreateRFC ==
    \E c \in RFCCreatesets, now \in Times :
        LET out == rfcs_create(db, c, now, next_uuid)
        IN  EntityStep("rfc", Call("create", "rfc", next_uuid, EmptyJson, c, now, out.result),
                       out, IF is_ok(out.result) THEN 1 ELSE 0)

UpdateRFC ==
    \E id \in KnownIds, json \in RFCPayloads :
        LET u == RFCUpdateset_deserialize(json)
            out == rfcs_update(db, id, u)
        IN  EntityStep("rfc", Call("update", "rfc", id, json, u, 0, out.result), out, 0)

ReadRFC ==
    \E id \in KnownIds :
        EntityStep("rfc", Call("read", "rfc", id, EmptyJson, <<>>, 0, rfcs_load(db, id)),
                   Outcome(<<>>, db), 0)

DeleteRFC ==
    \E id \in KnownIds :
        LET out == rfcs_delete(db, id)
        IN  EntityStep("rfc", Call("delete", "rfc", id, EmptyJson, <<>>, 0, out.result), out, 0)

Init ==
    /\ db = EmptyDb
    /\ next_uuid = 1
    /\ last = NoCall
    /\ nops = 0
    /\ focus \in EntityKinds
    /\ linked = {}
    /\ serde = NoSerde
    /\ prio = NoPrio
    /\ conc = NoConc
    /\ valid = NoValid

Next ==
    \/ CreateConfigItem \/ UpdateConfigItem \/ ReadConfigItem \/ DeleteConfigItem
    \/ CreateIncident \/ UpdateIncident \/ ReadIncident \/ DeleteIncident
    \/ CreateProblem \/ UpdateProblem \/ ReadProblem \/ DeleteProblem
    \/ CreateRFC \/ UpdateRFC \/ ReadRFC \/ DeleteRFC

Spec == Init /\ [][Next]_vars

(***************************************************************************)
(* The relation endpoints and the change records of a configuration item   *)
(* as steps of the state machine.  A session works on one kind of relation *)
(* and creates the entities it relates.                                    *)
(***************************************************************************)
RelationKinds == {"incident_ci", "problem_incident", "rfc_problem", "rfc_incident"}

\* the relations identified by their pair of keys; the others carry an id
PairKeyed == {"incident_ci", "problem_incident"}

ParentKind(rel) ==
    CASE rel = "incident_ci" -> "incident"
      [] rel = "problem_incident" -> "problem"
      [] rel = "rfc_problem" -> "rfc"
      [] rel = "rfc_incident" -> "rfc"
      [] rel = "ci_change" -> "configitem"

ChildKind(rel) ==
    CASE rel = "incident_ci" -> "configitem"
      [] rel = "problem_incident" -> "incident"
      [] rel = "rfc_problem" -> "problem"
      [] rel = "rfc_incident" -> "incident"
      [] rel = "ci_change" -> "none"

ConfigItemFullCreateset ==
    [name |-> Str("a", 1), status |-> Some("active"), created_at |-> Some(1),
     type |-> Some(Str("b", 1)), owner |-> Some(Str("b", 1)), description |-> Str("b", 1)]

IncidentFullCreateset ==
    [title |-> Str("a", 1), status |-> Some("inprogress"), created_at |-> Some(1),
     resolved_at |-> None, impact |-> "low", urgency |-> "low",
     owner |-> Some(Str("b", 1)), asignee |-> None, description |-> Str("b", 1)]

ProblemFullCreateset ==
    [title |-> Str("a", 1), status |-> Some("open"), detection_timedate |-> Some(1),
     description |-> Str("b", 1), causes |-> Str("b", 1), workarounds |-> Some(Str("b", 1)),
     resolutions |-> Some(Str("b", 1))]

RFCFullCreateset ==
    [title |-> Str("a", 1), status |-> Some("open"), created_at |-> Some(1),
     finished_at |-> None, requester |-> Str("b", 1), description |-> Str("b", 1)]

DescriptionTexts == {EmptyStr, Str("d", 1)}

CIChangeCreatesets ==
    {[implementation_timedate |-> t, documentation |-> doc] :
        t \in Times, doc \in {Str("b", 1), Str("x", 1025)}}

CIChangeSamples ==
    [implementation_timedate |-> Times, documentation |-> LongTexts]

CIChangeBasicJson ==
    [implementation_timedate |-> Some(MaxTime), documentation |-> Some(Str("x", 1024))]

CIChangePayloads == Payloads(CIChangeSamples, CIChangeBasicJson)

\* what the client has been told exists: the relation or change record of
\* every successful creation, until its successful deletion
Link(rel, parent, child, id) == [rel |-> rel, parent |-> parent, child |-> child, id |-> id]

RelStep(rel, call, out, fresh, newlinked) ==
    /\ focus = rel
    /\ nops < (IF rel = "ci_change" THEN MaxChangeOps ELSE MaxRelOps)
    /\ nops' = nops + 1
    /\ db' = out.db
    /\ last' = call
    /\ next_uuid' = next_uuid + fresh
    /\ linked' = newlinked
    /\ UNCHANGED <<focus, serde, prio, conc, valid>>

AddEntity(kind, out) ==
    /\ focus \in RelationKinds \cup {"ci_change"}
    /\ kind \in {ParentKind(focus), ChildKind(focus)}
    /\ RelStep(focus, Call("create", kind, next_uuid, EmptyJson, <<>>, 1, out.result), out, 1, linked)

AddConfigItem == AddEntity("configitem", configitems_create(db, ConfigItemFullCreateset, 1, next_uuid))
AddIncident == AddEntity("incident", incidents_create(db, IncidentFullCreateset, 1, next_uuid))
AddProblem == AddEntity("problem", problems_create(db, ProblemFullCreateset, 1, next_uuid))
AddRFC == AddEntity("rfc", rfcs_create(db, RFCFullCreateset, 1, next_uuid))

\* --- incidents <-> configuration items
RelateIncidentCI ==
    \E p \in KnownIds, c \in KnownIds :
        LET out == incidents_ci_relations_create(db, p, c)
        IN  RelStep("incident_ci", Call("relate", "incident_ci", p, EmptyJson, c, 0, out.result), out, 0,
                    IF is_ok(out.result) THEN linked \cup {Link("incident_ci", p, c, 0)} ELSE linked)

ReadAllIncidentCI ==
    \E p \in KnownIds :
        LET out == incidents_ci_relations_load_all(db, p)
        IN  RelStep("incident_ci", Call("read_all", "incident_ci", p, EmptyJson, <<>>, 0, out.result),
                    out, 0, linked)

DescribeIncidentCI ==
    \E p \in KnownIds, c \in KnownIds, text \in DescriptionTexts :
        LET out == incidents_ci_relations_update(db, p, c, text)
        IN  RelStep("incident_ci", Call("describe", "incident_ci", p, EmptyJson, <<c, text>>, 0, out.result),
                    out, 0, linked)

UnrelateIncidentCI ==
    \E p \in KnownIds, c \in KnownIds :
        LET out == incidents_ci_relations_delete(db, p, c)
        IN  RelStep("incident_ci", Call("unrelate", "incident_ci", p, EmptyJson, c, 0, out.result), out, 0,
                    IF is_ok(out.result) THEN linked \ {Link("incident_ci", p, c, 0)} ELSE linked)

\* --- problems <-> incidents
RelateProblemIncident ==
    \E p \in KnownIds, c \in KnownIds :
        LET out == problem_incident_relations_create(db, p, c)
        IN  RelStep("problem_incident", Call("relate", "problem_incident", p, EmptyJson, c, 0, out.result),
                    out, 0,
                    IF is_ok(out.result) THEN linked \cup {Link("problem_incident", p, c, 0)} ELSE linked)

ReadAllProblemIncident ==
    \E p \in KnownIds :
        LET out == problem_incident_relations_load_all(db, p)
        IN  RelStep("problem_incident", Call("read_all", "problem_incident", p, EmptyJson, <<>>, 0, out.result),
                    out, 0, linked)

DescribeProblemIncident ==
    \E p \in KnownIds, c \in KnownIds, text \in DescriptionTexts :
        LET out == problem_incident_relations_update(db, p, c, text)
        IN  RelStep("problem_incident",
                    Call("describe", "problem_incident", p, EmptyJson, <<c, text>>, 0, out.result),
                    out, 0, linked)

UnrelateProblemIncident ==
    \E p \in KnownIds, c \in KnownIds :
        LET out == problem_incident_relations_delete(db, p, c)
        IN  RelStep("problem_incident", Call("unrelate", "problem_incident", p, EmptyJson, c, 0, out.result),
                    out, 0,
                    IF is_ok(out.result) THEN linked \ {Link("problem_incident", p, c, 0)} ELSE linked)

\* --- RFCs <-> problems
RelateRFCProblem ==
    \E p \in KnownIds, c \in KnownIds :
        LET out == rfc_problem_relations_create(db, p, [problem_id |-> c], next_uuid)
        IN  RelStep("rfc_problem", Call("relate", "rfc_problem", p, EmptyJson, c, 0, out.result), out,
                    IF is_ok(out.result) THEN 1 ELSE 0,
                    IF is_ok(out.result) THEN linked \cup {Link("rfc_problem", p, c, out.result[2].id)}
                    ELSE linked)

ReadAllRFCProblem ==
    \E p \in KnownIds :
        LET out == rfc_problem_relations_load_all(db, p)
        IN  RelStep("rfc_problem", Call("read_all", "rfc_problem", p, EmptyJson, <<>>, 0, out.result),
                    out, 0, linked)

UnrelateRFCProblem ==
    \E p \in KnownIds, x \in KnownIds :
        LET out == rfc_problem_relations_delete(db, p, x)
        IN  RelStep("rfc_problem", Call("unrelate", "rfc_problem", p, EmptyJson, x, 0, out.result), out, 0,
                    IF is_ok(out.result)
                    THEN {l \in linked : ~ (l.rel = "rfc_problem" /\ l.parent = p /\ l.id = x)}
                    ELSE linked)

\* --- RFCs <-> incidents
RelateRFCIncident ==
    \E p \in KnownIds, c \in KnownIds :
        LET out == rfc_incident_relations_create(db, p, [incident_id |-> c], next_uuid)
        IN  RelStep("rfc_incident", Call("relate", "rfc_incident", p, EmptyJson, c, 0, out.result), out,
                    IF is_ok(out.result) THEN 1 ELSE 0,
                    IF is_ok(out.result) THEN linked \cup {Link("rfc_incident", p, c, out.result[2].id)}
                    ELSE linked)

ReadAllRFCIncident ==
    \E p \in KnownIds :
        LET out == rfc_incident_relations_load_all(db, p)
        IN  RelStep("rfc_incident", Call("read_all", "rfc_incident", p, EmptyJson, <<>>, 0, out.result),
                    out, 0, linked)

UnrelateRFCIncident ==
    \E p \in KnownIds, x \in KnownIds :
        LET out == rfc_incident_relations_delete(db, p, x)
        IN  RelStep("rfc_incident", Call("unrelate", "rfc_incident", p, EmptyJson, x, 0, out.result), out, 0,
                    IF is_ok(out.result)
                    THEN {l \in linked : ~ (l.rel = "rfc_incident" /\ l.parent = p /\ l.id = x)}
                    ELSE linked)

\* --- change records of a configuration item
CreateCIChange ==
    \E p \in KnownIds, c \in CIChangeCreatesets :
        LET out == ci_changes_create(db, p, c, next_uuid)
        IN  RelStep("ci_change", Call("relate", "ci_change", p, EmptyJson, c, 0, out.result), out,
                    IF is_ok(out.result) THEN 1 ELSE 0,
                    IF is_ok(out.result) THEN linked \cup {Link("ci_change", p, 0, out.result[2].id)}
                    ELSE linked)

ReadAllCIChanges ==
    \E p \in KnownIds :
        LET out == ci_changes_load_all(db, p)
        IN  RelStep("ci_change", Call("read_all", "ci_change", p, EmptyJson, <<>>, 0, out.result),
                    out, 0, linked)

ReadCIChange ==
    \E p \in KnownIds, x \in KnownIds :
        RelStep("ci_change", Call("read", "ci_change", p, EmptyJson, x, 0, ci_changes_load(db, x, p)),
                Outcome(<<>>, db), 0, linked)

UpdateCIChange ==
    \E p \in KnownIds, x \in KnownIds, json \in CIChangePayloads :
        LET u == CIChangeUpdateset_deserialize(json)
            out == ci_changes_update(db, x, p, u)
        IN  RelStep("ci_change", Call("update", "ci_change", p, json, <<x, u>>, 0, out.result), out, 0, linked)

DeleteCIChange ==
    \E p \in KnownIds, x \in KnownIds :
        LET out == ci_changes_delete(db, x, p)
        IN  RelStep("ci_change", Call("unrelate", "ci_change", p, EmptyJson, x, 0, out.result), out, 0,
                    IF is_ok(out.result)
                    THEN {l \in linked : ~ (l.rel = "ci_change" /\ l.parent = p /\ l.id = x)}
                    ELSE linked)

InitRel ==
    /\ db = EmptyDb
    /\ next_uuid = 1
    /\ last = NoCall
    /\ nops = 0
    /\ focus \in RelationKinds \cup {"ci_change"}
    /\ linked = {}
    /\ serde = NoSerde
    /\ prio = NoPrio
    /\ conc = NoConc
    /\ valid = NoValid

NextRel ==
    \/ AddConfigItem \/ AddIncident \/ AddProblem \/ AddRFC
    \/ RelateIncidentCI \/ ReadAllIncidentCI \/ DescribeIncidentCI \/ UnrelateIncidentCI
    \/ RelateProblemIncident \/ ReadAllProblemIncident \/ DescribeProblemIncident
    \/ UnrelateProblemIncident
    \/ RelateRFCProblem \/ ReadAllRFCProblem \/ UnrelateRFCProblem
    \/ RelateRFCIncident \/ ReadAllRFCIncident \/ UnrelateRFCIncident
    \/ CreateCIChange \/ ReadAllCIChanges \/ ReadCIChange \/ UpdateCIChange \/ DeleteCIChange

SpecRel == InitRel /\ [][NextRel]_vars

(***************************************************************************)
(* The pure functions on inputs of their own: the updatesets read from and *)
(* written to JSON, and the priority of a pair of impact and urgency.      *)
(***************************************************************************)
UpdatesetKinds == EntityKinds \cup {"ci_change"}

Updateset_deserialize(kind, json) ==
    CASE kind = "configitem" -> ConfigItemUpdateset_deserialize(json)
      [] kind = "incident" -> IncidentUpdateset_deserialize(json)
      [] kind = "problem" -> ProblemUpdateset_deserialize(json)
      [] kind = "rfc" -> RFCUpdateset_deserialize(json)
      [] kind = "ci_change" -> CIChangeUpdateset_deserialize(json)

Updateset_serialize(kind, u) ==
    CASE kind = "configitem" -> ConfigItemUpdateset_serialize(u)
      [] kind = "incident" -> IncidentUpdateset_serialize(u)
      [] kind = "problem" -> ProblemUpdateset_serialize(u)
      [] kind = "rfc" -> RFCUpdateset_serialize(u)
      [] kind = "ci_change" -> CIChangeUpdateset_serialize(u)

\* a JSON object with the key k absent, null or carrying the basic value
SetKey(json, basic, k, st) ==
    CASE st = "absent" -> Remove(json, k)
      [] st = "null" -> Override(json, k, None)
      [] st = "value" -> Override(json, k, basic[k])

RECURSIVE Deviate(_, _, _)
Deviate(docs, basic, n) ==
    IF n = 0 THEN docs
    ELSE Deviate(docs \cup {SetKey(d, basic, k, st) :
                                d \in docs, k \in DOMAIN basic, st \in {"absent", "null", "value"}},
                 basic, n - 1)

\* the JSON objects over the keys of an updateset that differ in at most
\* MaxDeviations keys from {}, from the object of nulls or from the basic
\* payload
JsonDocs(basic) ==
    Deviate({EmptyJson, [k \in DOMAIN basic |-> None], basic}, basic, MaxDeviations)

SerdeInput(kind, json) ==
    [phase |-> "input", kind |-> kind, json |-> json, updateset |-> <<>>, out |-> EmptyJson]

BasicJson(kind) ==
    CASE kind = "configitem" -> ConfigItemBasicJson
      [] kind = "incident" -> IncidentBasicJson
      [] kind = "problem" -> ProblemBasicJson
      [] kind = "rfc" -> RFCBasicJson
      [] kind = "ci_change" -> CIChangeBasicJson

SerdeInputs(kinds) ==
    UNION {{SerdeInput(kind, j) : j \in JsonDocs(BasicJson(kind))} : kind \in kinds}

PrioInputs ==
    {[phase |-> "input", impact |-> i, urgency |-> u, priority |-> "none"] :
        i \in IncidentImpact, u \in IncidentUrgency}

\* serde_json::from_value::<...Updateset>(json)
Deserialize ==
    /\ serde.phase = "input"
    /\ serde' = [serde EXCEPT !.phase = "parsed",
                              !.updateset = Updateset_deserialize(serde.kind, serde.json)]
    /\ UNCHANGED <<db, next_uuid, last, nops, focus, linked, prio, conc, valid>>

\* serde_json::to_value(updateset)
Serialize ==
    /\ serde.phase = "parsed"
    /\ serde' = [serde EXCEPT !.phase = "written",
                              !.out = Updateset_serialize(serde.kind, serde.updateset)]
    /\ UNCHANGED <<db, next_uuid, last, nops, focus, linked, prio, conc, valid>>

\* IncidentPrio::from(impact, urgency)
Prioritize ==
    /\ prio.phase = "input"
    /\ prio' = [prio EXCEPT !.phase = "computed",
                            !.priority = IncidentPrio_from(prio.impact, prio.urgency)]
    /\ UNCHANGED <<db, next_uuid, last, nops, focus, linked, serde, conc, valid>>

InitPure ==
    /\ db = EmptyDb
    /\ next_uuid = 1
    /\ last = NoCall
    /\ nops = 0
    /\ focus = "pure"
    /\ linked = {}
    /\ \/ serde \in SerdeInputs(UpdatesetKinds) /\ prio = NoPrio
       \/ serde = NoSerde /\ prio \in PrioInputs
    /\ conc = NoConc
    /\ valid = NoValid

NextPure == Deserialize \/ Serialize \/ Prioritize

SpecPure == InitPure /\ [][NextPure]_vars

(***************************************************************************)
(* Vocabulary of the properties.                                           *)
(***************************************************************************)
Table(d, kind) ==
    CASE kind = "configitem" -> d.configitems
      [] kind = "incident" -> d.incidents
      [] kind = "problem" -> d.problems
      [] kind = "rfc" -> d.rfcs

Exists(d, kind, id) == \E r \in Table(d, kind) : r.id = id
RowOf(d, kind, id) == CHOOSE r \in Table(d, kind) : r.id = id

\* the fields of the record structs that are not Option, the id aside
RequiredFields(kind) ==
    CASE kind = "configitem" -> {"name", "status", "created_at", "description"}
      [] kind = "incident" -> {"title", "status", "created_at", "impact", "urgency", "description"}
      [] kind = "problem" -> {"title", "status", "detection_timedate", "description", "causes"}
      [] kind = "rfc" -> {"title", "status", "created_at", "requester", "description"}

\* the fields of the record structs that are Option
OptionalFields(kind) ==
    CASE kind = "configitem" -> {"type", "owner"}
      [] kind = "incident" -> {"resolved_at", "owner", "asignee"}
      [] kind = "problem" -> {"workarounds", "resolutions"}
      [] kind = "rfc" -> {"finished_at"}

\* the fields of an updateset typed PatchField<T>; the others are Option<...>
PatchFieldTyped(kind) == IF kind = "problem" THEN {"workarounds", "resolutions"} ELSE {}

\* the field of an updateset asks for no change
FieldMissing(kind, u, f) ==
    IF f \in PatchFieldTyped(kind) THEN leave_unchanged(u[f]) ELSE is_none(u[f])

AllMissing(kind, u) == \A f \in DOMAIN u : FieldMissing(kind, u, f)

Validates(kind, u) ==
    CASE kind = "configitem" -> ConfigItemUpdateset_validate(u)
      [] kind = "incident" -> IncidentUpdateset_validate(u)
      [] kind = "problem" -> ProblemUpdateset_validate(u)
      [] kind = "rfc" -> RFCUpdateset_validate(u)

\* the last request was an update of a record that existed
UpdateOfExisting == last.op = "update" /\ Exists(last.before, last.kind, last.id)

\* C1: an update of an existing record whose payload carries an explicit
\* null for a required field returns ValidationError and leaves the stored
\* state as it was, for every entity kind.
C1_RequiredNullIsRejected ==
    (UpdateOfExisting
        /\ \E r \in RequiredFields(last.kind) : has_key(last.json, r) /\ is_none(last.json[r]))
    => (last.result = Err(ValidationError) /\ db = last.before)

\* C2: an update of an existing record with an updateset in which every
\* field is Missing succeeds, returns the record and leaves every stored
\* field as it was.
C2_AllMissingChangesNothing ==
    (UpdateOfExisting /\ AllMissing(last.kind, last.arg))
    => (/\ last.result = Ok(RowOf(last.before, last.kind, last.id))
        /\ db = last.before)

C2_Witness ==
    /\ UpdateOfExisting
    /\ AllMissing(last.kind, last.arg)
    /\ last.kind = "problem"
    /\ is_ok(last.result)
    /\ is_some(RowOf(db, "problem", last.id).workarounds)

\* C3: an update of an existing record that passes validation succeeds, and
\* for every optional field f: a key f that is absent keeps the stored value,
\* an explicit null stores f as absent whatever it was, a value v stores v.
C3_OptionalFieldFollowsPatch ==
    (UpdateOfExisting /\ Validates(last.kind, last.arg))
    => /\ is_ok(last.result)
       /\ Exists(db, last.kind, last.id)
       /\ last.result = Ok(RowOf(db, last.kind, last.id))
       /\ \A f \in OptionalFields(last.kind) :
            RowOf(db, last.kind, last.id)[f] =
                IF has_key(last.json, f) THEN last.json[f]
                ELSE RowOf(last.before, last.kind, last.id)[f]

C3_Witness ==
    /\ UpdateOfExisting
    /\ is_ok(last.result)
    /\ \E f \in OptionalFields(last.kind) :
        /\ has_key(last.json, f)
        /\ is_none(last.json[f])
        /\ is_some(RowOf(last.before, last.kind, last.id)[f])
        /\ is_none(RowOf(db, last.kind, last.id)[f])

\* the fields of an updateset read with one of the three-state encodings
\* (PatchField<T> or the double Option); the others are plain Option<T>
ThreeStateFields(kind) ==
    IF kind = "problem" THEN {"workarounds", "resolutions"}
    ELSE DOMAIN Updateset_deserialize(kind, EmptyJson)

\* C4: for every entity's updateset type, an updateset whose fields are all
\* Missing serializes to the empty JSON object {}, and {} deserializes to an
\* updateset whose fields are all Missing.
C4_AllMissingIsEmptyObject ==
    /\ (serde.phase = "written" /\ AllMissing(serde.kind, serde.updateset))
        => DOMAIN serde.out = {}
    /\ (serde.phase \in {"parsed", "written"} /\ DOMAIN serde.json = {})
        => AllMissing(serde.kind, serde.updateset)

RelTable(d, rel) ==
    CASE rel = "incident_ci" -> d.incidents_ci_relations
      [] rel = "problem_incident" -> d.problem_incident_relations
      [] rel = "rfc_problem" -> d.rfc_problem_relations
      [] rel = "rfc_incident" -> d.rfc_incident_relations
      [] rel = "ci_change" -> d.ci_changes

\* the ids of the parent and of the child in a relation
Pair(rel, row) ==
    CASE rel = "incident_ci" -> <<row.incident_id, row.ci_id>>
      [] rel = "problem_incident" -> <<row.problem_id, row.incident_id>>
      [] rel = "rfc_problem" -> <<row.rfc_id, row.problem_id>>
      [] rel = "rfc_incident" -> <<row.rfc_id, row.incident_id>>

LinkOf(rel, row) ==
    Link(rel, Pair(rel, row)[1], Pair(rel, row)[2], IF rel \in PairKeyed THEN 0 ELSE row.id)

\* the last request asked to relate a parent and a child
RelateCall == last.op = "relate" /\ last.kind \in RelationKinds
ParentExisted == Exists(last.before, ParentKind(last.kind), last.id)
ChildExisted == Exists(last.before, ChildKind(last.kind), last.arg)

\* C6: for every relation kind, creating a relation of a nonexistent parent
\* and an existing child returns NoRecordFound, creating one of an existing
\* parent and a nonexistent child returns ConstraintError, and in both cases
\* the rows of the relation stay as they were.
C6_FailedRelationCreatesNoRow ==
    RelateCall
    => /\ (~ ParentExisted /\ ChildExisted)
            => /\ last.result = Err(NoRecordFound)
               /\ RelTable(db, last.kind) = RelTable(last.before, last.kind)
       /\ (ParentExisted /\ ~ ChildExisted)
            => /\ last.result = Err(ConstraintError)
               /\ RelTable(db, last.kind) = RelTable(last.before, last.kind)

C6_Witness ==
    /\ RelateCall
    /\ ParentExisted
    /\ ~ ChildExisted
    /\ last.result = Err(ConstraintError)
    /\ RelTable(db, last.kind) # {}

\* C7: once the creation of a change record of an existing configuration
\* item has returned success with the record ch, the record is persisted:
\* load_all of the item contains ch and has one more element than before, and
\* load, update and delete of ch under the item find it.
C7_CreatedChangeIsPersisted ==
    (last.op = "relate" /\ last.kind = "ci_change" /\ is_ok(last.result))
    => LET ch == last.result[2]
           listed == ci_changes_load_all(db, last.id).result
           before == ci_changes_load_all(last.before, last.id).result
       IN  /\ ch.ci_id = last.id
           /\ is_ok(listed)
           /\ \E i \in DOMAIN listed[2] : listed[2][i] = ch
           /\ Len(listed[2]) = Len(before[2]) + 1
           /\ ci_changes_load(db, ch.id, last.id) = Ok(ch)
           /\ is_ok(ci_changes_update(db, ch.id, last.id,
                                      CIChangeUpdateset_deserialize(EmptyJson)).result)
           /\ is_ok(ci_changes_delete(db, ch.id, last.id).result)

PriorityTable ==
    [high |-> [high |-> "critical", medium |-> "high", low |-> "moderate"],
     medium |-> [high |-> "high", medium |-> "moderate", low |-> "low"],
     low |-> [high |-> "moderate", medium |-> "low", low |-> "low"]]

Weight(level) ==
    CASE level = "high" -> 3
      [] level = "medium" -> 2
      [] level = "low" -> 1

PriorityOfProduct(n) ==
    CASE n \in {1, 2} -> "low"
      [] n \in {3, 4} -> "moderate"
      [] n = 6 -> "high"
      [] n = 9 -> "critical"

\* C9: for each of the nine pairs of impact and urgency the priority is the
\* lookup of the product of their weights (High 3, Medium 2, Low 1): 1 or 2
\* Low, 3 or 4 Moderate, 6 High, 9 Critical; High with Medium and Medium
\* with High are both High.
C9_PriorityTable ==
    prio.phase = "computed"
    => /\ prio.priority = PriorityOfProduct(Weight(prio.impact) * Weight(prio.urgency))
       /\ prio.priority = PriorityTable[prio.impact][prio.urgency]
       /\ <<prio.impact, prio.urgency>> \in {<<"high", "medium">>, <<"medium", "high">>}
            => prio.priority = "high"

C9_Witness ==
    /\ prio.phase = "computed"
    /\ prio.impact = "high"
    /\ prio.urgency = "medium"
    /\ prio.priority = "high"

\* C10: after any creates and updates of incidents, the priority reported
\* when an incident is returned and serialized is the table lookup of the
\* impact and urgency now stored for it, and no stored row holds a priority.
C10_ReportedPriorityIsCurrent ==
    /\ \A r \in db.incidents : "priority" \notin DOMAIN r
    /\ (last.kind = "incident" /\ last.op \in {"create", "update", "read"} /\ is_ok(last.result))
        => /\ Exists(db, "incident", last.result[2].id)
           /\ Incident_serialize(last.result[2]).priority
                = Some(PriorityTable[RowOf(db, "incident", last.result[2].id).impact]
                                    [RowOf(db, "incident", last.result[2].id).urgency])

C10_Witness ==
    /\ last.kind = "incident"
    /\ last.op = "update"
    /\ is_ok(last.result)
    /\ Exists(last.before, "incident", last.id)
    /\ Incident_serialize(last.result[2]).priority
        # Incident_serialize(RowOf(last.before, "incident", last.id)).priority
    /\ Incident_serialize(last.result[2]).priority = Some("critical")

EntityLoad(kind, d, id) ==
    CASE kind = "configitem" -> configitems_load(d, id)
      [] kind = "incident" -> incidents_load(d, id)
      [] kind = "problem" -> problems_load(d, id)
      [] kind = "rfc" -> rfcs_load(d, id)

EntityUpdate(kind, d, id, u) ==
    CASE kind = "configitem" -> configitems_update(d, id, u)
      [] kind = "incident" -> incidents_update(d, id, u)
      [] kind = "problem" -> problems_update(d, id, u)
      [] kind = "rfc" -> rfcs_update(d, id, u)

EntityDelete(kind, d, id) ==
    CASE kind = "configitem" -> configitems_delete(d, id)
      [] kind = "incident" -> incidents_delete(d, id)
      [] kind = "problem" -> problems_delete(d, id)
      [] kind = "rfc" -> rfcs_delete(d, id)

\* no key of the payload carries JSON null
NoExplicitNull(json) == \A k \in DOMAIN json : is_some(json[k])

\* C11: for an existing record and a valid update payload without explicit
\* nulls, applying the update a second time leaves the stored record as the
\* first application left it.
C11_UpdateIsIdempotent ==
    (UpdateOfExisting /\ Validates(last.kind, last.arg) /\ NoExplicitNull(last.json))
    => LET again == EntityUpdate(last.kind, db, last.id, last.arg)
       IN  /\ is_ok(last.result)
           /\ again.result = last.result
           /\ again.db = db

C11_Witness ==
    /\ UpdateOfExisting
    /\ is_ok(last.result)
    /\ NoExplicitNull(last.json)
    /\ db # last.before
    /\ \E f \in OptionalFields(last.kind) :
        /\ has_key(last.json, f)
        /\ RowOf(db, last.kind, last.id)[f] # RowOf(last.before, last.kind, last.id)[f]

\* C12: an update with a valid updateset and an id that names no record
\* returns NoRecordFound, creates no record and changes no record.
C12_UpdateOfUnknownIdIsNotFound ==
    (last.op = "update" /\ ~ Exists(last.before, last.kind, last.id)
        /\ Validates(last.kind, last.arg))
    => (last.result = Err(NoRecordFound) /\ db = last.before)

C12_Witness ==
    /\ last.op = "update"
    /\ ~ Exists(last.before, last.kind, last.id)
    /\ last.result = Err(NoRecordFound)
    /\ Table(db, last.kind) # {}
    /\ DOMAIN last.json # {}

\* the length bounds of the text fields, as the structs declare them
TextBounds(kind) ==
    CASE kind = "configitem" ->
            [name |-> <<1, 255>>, type |-> <<0, 1024>>, owner |-> <<0, 1024>>,
             description |-> <<0, 1024>>]
      [] kind = "incident" ->
            [title |-> <<1, 255>>, owner |-> <<0, 1024>>, asignee |-> <<0, 1024>>,
             description |-> <<0, 1024>>]
      [] kind = "problem" ->
            [title |-> <<1, 255>>, description |-> <<0, 1024>>, causes |-> <<0, 1024>>,
             workarounds |-> <<0, 1024>>, resolutions |-> <<0, 1024>>]
      [] kind = "rfc" ->
            [title |-> <<1, 255>>, requester |-> <<0, 1024>>, description |-> <<0, 1024>>]

BadLength(s, bounds) == StrLen(s) < bounds[1] \/ StrLen(s) > bounds[2]

\* an update payload breaks a length bound or nulls a required field
InvalidUpdate(kind, json) ==
    \/ \E r \in RequiredFields(kind) : has_key(json, r) /\ is_none(json[r])
    \/ \E f \in DOMAIN TextBounds(kind) :
        /\ has_key(json, f)
        /\ is_some(json[f])
        /\ BadLength(unwrap(json[f]), TextBounds(kind)[f])

\* a createset breaks a length bound
InvalidCreate(kind, c) ==
    \E f \in DOMAIN TextBounds(kind) :
        IF f \in OptionalFields(kind)
        THEN is_some(c[f]) /\ BadLength(unwrap(c[f]), TextBounds(kind)[f])
        ELSE BadLength(c[f], TextBounds(kind)[f])

\* C13: a create or an update whose payload fails validation (a length
\* bound, or the guard against null for a required field) returns
\* ValidationError and leaves the whole stored state as it was.
C13_InvalidPayloadWritesNothing ==
    (\/ last.op = "update" /\ InvalidUpdate(last.kind, last.json)
     \/ last.op = "create" /\ InvalidCreate(last.kind, last.arg))
    => (last.result = Err(ValidationError) /\ db = last.before)

StatusDefault(kind) == IF kind = "configitem" THEN "inactive" ELSE "open"

TimeField(kind) == IF kind = "problem" THEN "detection_timedate" ELSE "created_at"

\* C14: a create with a valid createset adds exactly one record, returns the
\* record as persisted, stores the default status for an omitted status, the
\* current time for an omitted creation time and every given field as given.
C14_CreateStoresWhatWasGiven ==
    (last.op = "create" /\ ~ InvalidCreate(last.kind, last.arg))
    => /\ is_ok(last.result)
       /\ LET row == last.result[2]
              c == last.arg
          IN  /\ row \notin Table(last.before, last.kind)
              /\ ~ Exists(last.before, last.kind, row.id)
              /\ Table(db, last.kind) = Table(last.before, last.kind) \cup {row}
              /\ \A k \in EntityKinds \ {last.kind} : Table(db, k) = Table(last.before, k)
              /\ DOMAIN row = DOMAIN c \cup {"id"}
              /\ row.status = IF is_some(c.status) THEN unwrap(c.status)
                              ELSE StatusDefault(last.kind)
              /\ row[TimeField(last.kind)] =
                    IF is_some(c[TimeField(last.kind)]) THEN unwrap(c[TimeField(last.kind)])
                    ELSE last.now
              /\ \A f \in DOMAIN c \ {"status", TimeField(last.kind)} : row[f] = c[f]

C14_Witness ==
    /\ last.op = "create"
    /\ is_ok(last.result)
    /\ is_none(last.arg.status)
    /\ is_none(last.arg[TimeField(last.kind)])
    /\ last.result[2].status = StatusDefault(last.kind)
    /\ last.result[2][TimeField(last.kind)] = last.now
    /\ Cardinality(Table(db, last.kind)) = 2

\* C15: a delete of an existing record returns success, after which a read
\* of the id returns NoRecordFound and so does a second delete; a delete of
\* an id that names no record returns NoRecordFound and changes nothing.
C15_DeleteRemovesOnce ==
    last.op = "delete"
    => IF Exists(last.before, last.kind, last.id)
       THEN /\ last.result = Ok("unit")
            /\ Table(db, last.kind)
                = Table(last.before, last.kind) \ {RowOf(last.before, last.kind, last.id)}
            /\ EntityLoad(last.kind, db, last.id) = Err(NoRecordFound)
            /\ EntityDelete(last.kind, db, last.id).result = Err(NoRecordFound)
            /\ EntityDelete(last.kind, db, last.id).db = db
       ELSE /\ last.result = Err(NoRecordFound)
            /\ db = last.before

C15_Witness ==
    /\ last.op = "delete"
    /\ Exists(last.before, last.kind, last.id)
    /\ last.result = Ok("unit")
    /\ ~ Exists(db, last.kind, last.id)

ErrorKinds == {ValidationError, NoRecordFound, ConstraintError, DbError}

\* the payload of the last request on a change record fails validation
ChangePayloadInvalid ==
    /\ last.kind = "ci_change"
    /\ \/ last.op = "relate" /\ ~ CIChangeCreateset_validate(last.arg)
       \/ last.op = "update" /\ ~ CIChangeUpdateset_validate(last.arg[2])

RelLoadAll(rel, d, parent) ==
    CASE rel = "incident_ci" -> incidents_ci_relations_load_all(d, parent)
      [] rel = "problem_incident" -> problem_incident_relations_load_all(d, parent)
      [] rel = "rfc_problem" -> rfc_problem_relations_load_all(d, parent)
      [] rel = "rfc_incident" -> rfc_incident_relations_load_all(d, parent)

\* every table but the one of the relation is as before the last request
OnlyRelationTouched ==
    /\ \A k \in EntityKinds : Table(db, k) = Table(last.before, k)
    /\ \A k \in (RelationKinds \cup {"ci_change"}) \ {last.kind} :
        RelTable(db, k) = RelTable(last.before, k)

\* C17: reading all relations of a parent returns NoRecordFound when the
\* parent does not exist, and otherwise exactly the rows of the relation
\* whose parent id is that parent, the empty list when it has none.
C17_ReadAllListsTheParentsRows ==
    (last.op = "read_all" /\ last.kind \in RelationKinds)
    => /\ db = last.before
       /\ IF ~ ParentExisted THEN last.result = Err(NoRecordFound)
          ELSE /\ is_ok(last.result)
               /\ last.result[2]
                    = {r \in RelTable(last.before, last.kind) : Pair(last.kind, r)[1] = last.id}
               /\ \A r \in last.result[2] : Pair(last.kind, r)[1] = last.id

C17_Witness ==
    /\ last.op = "read_all"
    /\ last.kind \in RelationKinds
    /\ is_ok(last.result)
    /\ last.result[2] = {}
    /\ RelTable(db, last.kind) # {}

\* the rows of the relation the last request named, before it was served
NamedRelation ==
    IF last.kind \in PairKeyed
    THEN {r \in RelTable(last.before, last.kind) :
            Pair(last.kind, r) = <<last.id, IF last.op = "describe" THEN last.arg[1] ELSE last.arg>>}
    ELSE {r \in RelTable(last.before, last.kind) :
            Pair(last.kind, r)[1] = last.id /\ r.id = last.arg}

\* C18: for the relations that carry a description, an update of an existing
\* relation stores the new description on that relation only and returns it,
\* and an update of a relation that does not exist returns NoRecordFound and
\* neither creates nor changes a relation.
C18_DescriptionUpdatesOneRelation ==
    (last.op = "describe" /\ last.kind \in PairKeyed)
    => IF NamedRelation # {}
       THEN /\ Cardinality(NamedRelation) = 1
            /\ is_ok(last.result)
            /\ Pair(last.kind, last.result[2]) = <<last.id, last.arg[1]>>
            /\ last.result[2].description = last.arg[2]
            /\ RelTable(db, last.kind)
                = (RelTable(last.before, last.kind) \ NamedRelation) \cup {last.result[2]}
            /\ OnlyRelationTouched
       ELSE /\ last.result = Err(NoRecordFound)
            /\ db = last.before

C18_Witness ==
    /\ last.op = "describe"
    /\ NamedRelation # {}
    /\ is_ok(last.result)
    /\ last.result[2] \in RelTable(db, last.kind)
    /\ last.result[2] \notin RelTable(last.before, last.kind)

\* C19: a delete of an existing relation of a parent removes exactly that
\* relation, so that reading all relations of the parent no longer lists it;
\* a delete of a relation that does not exist under the parent returns
\* NoRecordFound and removes nothing.
C19_DeleteRemovesOneRelation ==
    (last.op = "unrelate" /\ last.kind \in RelationKinds)
    => IF NamedRelation # {}
       THEN /\ Cardinality(NamedRelation) = 1
            /\ last.result = Ok("unit")
            /\ RelTable(db, last.kind) = RelTable(last.before, last.kind) \ NamedRelation
            /\ OnlyRelationTouched
            /\ is_ok(RelLoadAll(last.kind, db, last.id).result)
            /\ RelLoadAll(last.kind, db, last.id).result[2] \cap NamedRelation = {}
       ELSE /\ last.result = Err(NoRecordFound)
            /\ db = last.before

C19_Witness ==
    /\ last.op = "unrelate"
    /\ last.kind \in RelationKinds
    /\ NamedRelation # {}
    /\ last.result = Ok("unit")
    /\ RelTable(last.before, last.kind) # {}
    /\ RelTable(db, last.kind) = {}

(***************************************************************************)
(* Relation creation and read-all against a concurrent delete of the       *)
(* parent.  create and load_all are followed statement by statement: each  *)
(* await is a step, and a delete of the parent, one statement on the pool, *)
(* may run between any two of them.  The storage layer is PostgreSQL at    *)
(* its default READ COMMITTED level: each statement sees what is committed *)
(* when it runs, the INSERT holds a key-share lock on the rows it          *)
(* references until its transaction ends, and a DELETE waits for it.       *)
(***************************************************************************)
\* the rule of the relation's foreign key for a delete of the parent
OnDeleteRules == {"cascade", "restrict"}

\* a row is locked from the INSERT that references it to the end of the
\* inserting transaction
row_locked(c, kind, id) ==
    /\ c.creator.pc = "commit"
    /\ \/ kind = ParentKind(focus) /\ id = c.creator.parent
       \/ kind = ChildKind(focus) /\ id = c.creator.child

check_valid_parent(rel, tx, id) ==
    CASE rel = "incident_ci" -> check_valid_incident(tx, id)
      [] rel = "problem_incident" -> check_valid_problem(tx, id)
      [] rel = "rfc_problem" -> check_valid_rfc(tx, id)
      [] rel = "rfc_incident" -> check_valid_rfc(tx, id)

\* the row of INSERT INTO <relation> ... VALUES
relation_row(rel, parent, child, uuid) ==
    CASE rel = "incident_ci" ->
             [incident_id |-> parent, ci_id |-> child, description |-> EmptyStr]
      [] rel = "problem_incident" ->
             [problem_id |-> parent, incident_id |-> child, description |-> EmptyStr]
      [] rel = "rfc_problem" -> [id |-> uuid, rfc_id |-> parent, problem_id |-> child]
      [] rel = "rfc_incident" -> [id |-> uuid, rfc_id |-> parent, incident_id |-> child]

with_relation(d, rel, rows) ==
    CASE rel = "incident_ci" -> [d EXCEPT !.incidents_ci_relations = rows]
      [] rel = "problem_incident" -> [d EXCEPT !.problem_incident_relations = rows]
      [] rel = "rfc_problem" -> [d EXCEPT !.rfc_problem_relations = rows]
      [] rel = "rfc_incident" -> [d EXCEPT !.rfc_incident_relations = rows]

\* the constraint only guards the child: the relation's parent column
\* carries no foreign key
relation_insert_error_mut(d, rel, parent, child) ==
    insert_error({[id |-> parent]}, parent, Table(d, ChildKind(rel)), child,
                 IF rel \in PairKeyed
                 THEN {r \in RelTable(d, rel) : Pair(rel, r) = <<parent, child>>}
                 ELSE {})

\* what the INSERT of create meets in the committed rows
relation_insert_error(d, rel, parent, child) ==
    insert_error(Table(d, ParentKind(rel)), parent, Table(d, ChildKind(rel)), child,
                 IF rel \in PairKeyed
                 THEN {r \in RelTable(d, rel) : Pair(rel, r) = <<parent, child>>}
                 ELSE {})

\* DELETE FROM <parent table> WHERE id = $1 RETURNING id, with the
\* relation's rows that reference the parent
parent_delete(d, rel, id, on_delete) ==
    LET refs == {r \in RelTable(d, rel) : Pair(rel, r)[1] = id}
        out == EntityDelete(ParentKind(rel), d, id)
    IN  IF refs = {} THEN out
        ELSE IF on_delete = "restrict" THEN Outcome(Err(DbError), d)
        ELSE Outcome(out.result, with_relation(out.db, rel, RelTable(out.db, rel) \ refs))

ConcStep(newconc) ==
    /\ focus \in RelationKinds
    /\ conc.on_delete \in OnDeleteRules
    /\ conc' = newconc

\* a statement sent to the storage layer is served or fails (connection
\* lost, statement refused)
IoOutcomes == {"served", "error"}

\* impl From<sqlx::Error> for Error, used by the ? operator
from_sqlx_error(e) == DbError

\* let mut tx = pool.begin().await?
CreateBegin ==
    \E p \in KnownIds, c \in KnownIds :
        /\ conc.creator.pc \in {"idle", "done"}
        /\ nops < MaxConcOps
        /\ nops' = nops + 1
        /\ ConcStep([conc EXCEPT !.creator = [Idle EXCEPT !.pc = "check", !.tx = "open",
                                                          !.parent = p, !.child = c]])
        /\ UNCHANGED <<db, next_uuid, last, focus, linked, serde, prio, valid>>

\* check_valid_<parent>(parent_id, &mut *tx).await?
CreateCheck ==
    \E io \in IoOutcomes :
        /\ conc.creator.pc = "check"
        /\ LET tx == tx_begin(db)
               chk == IF io = "error" THEN Err(from_sqlx_error(io))
                      ELSE check_valid_parent(focus, tx, conc.creator.parent)
           IN  /\ ConcStep([conc EXCEPT !.creator =
                                IF is_err(chk)
                                THEN [@ EXCEPT !.pc = "done", !.tx = "none", !.result = chk,
                                               !.cause = IF io = "error" THEN "io_check"
                                                         ELSE "no_parent"]
                                ELSE [@ EXCEPT !.pc = "insert"]])
               /\ db' = IF is_err(chk) THEN tx_drop(db, tx) ELSE db
        /\ UNCHANGED <<next_uuid, last, nops, focus, linked, serde, prio, valid>>

\* INSERT ... .execute(&mut *tx).await.map_err(...)?
CreateInsert ==
    \E io \in IoOutcomes :
        /\ conc.creator.pc = "insert"
        /\ LET tx == tx_begin(db)
               e == IF io = "error" THEN "io_error"
                    ELSE relation_insert_error(tx, focus, conc.creator.parent,
                                               conc.creator.child)
               uuid == IF focus \in PairKeyed THEN 0 ELSE next_uuid
           IN  /\ ConcStep([conc EXCEPT !.creator =
                                IF e # "none"
                                THEN [@ EXCEPT !.pc = "done", !.tx = "none",
                                               !.result = Err(map_insert_error(e)),
                                               !.cause = e]
                                ELSE [@ EXCEPT !.pc = "commit",
                                               !.row = <<relation_row(focus,
                                                                      conc.creator.parent,
                                                                      conc.creator.child,
                                                                      uuid)>>]])
               /\ next_uuid' = IF e = "none" /\ focus \notin PairKeyed
                               THEN next_uuid + 1 ELSE next_uuid
               /\ db' = IF e # "none" THEN tx_drop(db, tx) ELSE db
        /\ UNCHANGED <<last, nops, focus, linked, serde, prio, valid>>

\* tx.commit().await?; Ok(relation)
CreateCommit ==
    \E io \in IoOutcomes :
        /\ conc.creator.pc = "commit"
        /\ LET tx == with_relation(db, focus,
                                   RelTable(db, focus) \cup {conc.creator.row[1]})
           IN  IF io = "error"
               THEN /\ db' = tx_drop(db, tx)
                    /\ ConcStep([conc EXCEPT !.creator =
                                     [@ EXCEPT !.pc = "done", !.tx = "none",
                                               !.result = Err(from_sqlx_error(io)),
                                               !.cause = "io_commit"]])
               ELSE /\ db' = tx_commit(db, tx)
                    /\ ConcStep([conc EXCEPT !.creator =
                                     [@ EXCEPT !.pc = "done", !.tx = "none",
                                               !.result = Ok(conc.creator.row[1])]])
        /\ UNCHANGED <<next_uuid, last, nops, focus, linked, serde, prio, valid>>

\* load_all: let mut tx = pool.begin().await?
ReadBegin ==
    \E p \in KnownIds :
        /\ conc.reader.pc \in {"idle", "done"}
        /\ nops < MaxConcOps
        /\ nops' = nops + 1
        /\ ConcStep([conc EXCEPT !.reader = [Idle EXCEPT !.pc = "check", !.tx = "open",
                                                         !.parent = p]])
        /\ UNCHANGED <<db, next_uuid, last, focus, linked, serde, prio, valid>>

\* load_all: check_valid_<parent>(parent_id, &mut *tx).await?
ReadCheck ==
    \E io \in IoOutcomes :
        /\ conc.reader.pc = "check"
        /\ LET chk == IF io = "error" THEN Err(from_sqlx_error(io))
                      ELSE check_valid_parent(focus, tx_begin(db), conc.reader.parent)
           IN  ConcStep([conc EXCEPT !.reader =
                             IF is_err(chk)
                             THEN [@ EXCEPT !.pc = "done", !.tx = "none", !.result = chk,
                                            !.cause = IF io = "error" THEN "io_check"
                                                      ELSE "no_parent"]
                             ELSE [@ EXCEPT !.pc = "select"]])
        /\ UNCHANGED <<db, next_uuid, last, nops, focus, linked, serde, prio, valid>>

\* load_all: SELECT ... WHERE <parent>_id = $1 .fetch_all(&mut *tx).await?;
\* tx.commit().await?
ReadSelect ==
    \E io \in IoOutcomes :
        /\ conc.reader.pc = "select"
        /\ ConcStep([conc EXCEPT !.reader =
                         IF io = "error"
                         THEN [@ EXCEPT !.pc = "done", !.tx = "none",
                                        !.result = Err(from_sqlx_error(io)),
                                        !.cause = "io_select"]
                         ELSE [@ EXCEPT !.pc = "done", !.tx = "none",
                                        !.result = Ok({r \in RelTable(db, focus) :
                                                        Pair(focus, r)[1] =
                                                            conc.reader.parent})]])
        /\ UNCHANGED <<db, next_uuid, last, nops, focus, linked, serde, prio, valid>>

\* the delete endpoint of the parent's entity, served meanwhile
DeleteParent ==
    \E id \in KnownIds :
        /\ ~ row_locked(conc, ParentKind(focus), id)
        /\ nops < MaxConcOps
        /\ nops' = nops + 1
        /\ LET out == parent_delete(db, focus, id, conc.on_delete)
           IN  /\ db' = out.db
               /\ last' = Call("delete", ParentKind(focus), id, EmptyJson, <<>>, 0, out.result)
        /\ ConcStep(conc)
        /\ UNCHANGED <<next_uuid, focus, linked, serde, prio, valid>>

InitConc ==
    /\ db = EmptyDb
    /\ next_uuid = 1
    /\ last = NoCall
    /\ nops = 0
    /\ focus \in RelationKinds
    /\ linked = {}
    /\ serde = NoSerde
    /\ prio = NoPrio
    /\ conc \in {[NoConc EXCEPT !.on_delete = rule] : rule \in OnDeleteRules}
    /\ valid = NoValid

NextConc ==
    \/ AddConfigItem \/ AddIncident \/ AddProblem \/ AddRFC
    \/ CreateBegin \/ CreateCheck \/ CreateInsert \/ CreateCommit
    \/ ReadBegin \/ ReadCheck \/ ReadSelect
    \/ DeleteParent

SpecConc == InitConc /\ [][NextConc]_vars

\* the statements of a task run on the transaction it began
InOneTransaction(task, steps) == task.pc \in steps => task.tx = "open"

Returned(task) == task.pc = "done"

\* C21: an operation that begins a transaction has released it when it
\* returns, on every exit (success, parent not found, refused insert,
\* storage error at any statement or at commit), and one that returns an
\* error after beginning the transaction leaves no row it wrote visible
C21_TransactionsAreReleased ==
    conc.on_delete \in OnDeleteRules =>
        /\ conc.creator.pc \in {"idle", "done"} => conc.creator.tx = "none"
        /\ conc.reader.pc \in {"idle", "done"} => conc.reader.tx = "none"
        /\ Returned(conc.creator) /\ is_err(conc.creator.result) =>
               \/ conc.creator.row = <<>>
               \/ conc.creator.row[1] \notin RelTable(db, focus)

\* the INSERT was done and the commit failed: the function returned the
\* storage error, its transaction is closed and its row is not stored
C21_Witness ==
    /\ conc.on_delete \in OnDeleteRules
    /\ Returned(conc.creator)
    /\ conc.creator.cause = "io_commit"
    /\ conc.creator.result = Err(DbError)
    /\ conc.creator.row # <<>>
    /\ conc.creator.tx = "none"
    /\ Returned(conc.reader) /\ conc.reader.cause = "no_parent"

\* column = CASE WHEN $n THEN column ELSE $m END with
\* $n = field.leave_unchanged() and $m = field.into(): the PatchField path
patch_merge(p, column) == CASE_WHEN(leave_unchanged(p), column, PatchField_into(p))

\* the same statement with $n = field.is_none() and
\* $m = field.unwrap_or(None): the double-option path
double_option_merge(oo, column) == CASE_WHEN(is_none(oo), column, unwrap_or(oo, None))

\* the state of one encoding that corresponds to a state of the other
AsDoubleOption(p) ==
    CASE p = Missing -> None
      [] p = Null -> Some(None)
      [] OTHER -> Some(Some(p[2]))

AsPatchField(oo) ==
    IF is_none(oo) THEN Missing
    ELSE IF is_none(oo[1]) THEN Null
    ELSE Value(oo[1][1])

\* C22: the two patch encodings store the same: an optional field patched
\* through PatchField (leave_unchanged, into Option) ends as the double-option
\* merge (is_none, unwrap_or(None)) of the corresponding state would leave
\* it, and an optional field patched through the double option ends as the
\* PatchField merge of the corresponding state would leave it
C22_PatchEncodingsAgree ==
    (UpdateOfExisting /\ is_ok(last.result))
    => \A f \in OptionalFields(last.kind) :
           LET old == RowOf(last.before, last.kind, last.id)[f]
               new == RowOf(db, last.kind, last.id)[f]
               patch == IF f \in PatchFieldTyped(last.kind) THEN last.arg[f]
                        ELSE AsPatchField(last.arg[f])
               double == IF f \in PatchFieldTyped(last.kind) THEN AsDoubleOption(last.arg[f])
                         ELSE last.arg[f]
           IN  /\ new = patch_merge(patch, old)
               /\ new = double_option_merge(double, old)
               /\ AsPatchField(double) = patch /\ AsDoubleOption(patch) = double

\* a stored value was cleared by Null on the PatchField path
C22_Witness ==
    /\ UpdateOfExisting
    /\ is_ok(last.result)
    /\ last.kind = "problem"
    /\ last.arg.workarounds = Null
    /\ is_some(RowOf(last.before, "problem", last.id).workarounds)
    /\ is_none(RowOf(db, "problem", last.id).workarounds)

\* C23: for every relation kind, creating a relation of a parent and a
\* child that both do not exist returns NoRecordFound (answered 404): the
\* check of the parent comes before the INSERT, so the missing parent is
\* reported and not the constraint on the child; nothing is stored
C23_MissingParentIsReportedFirst ==
    (RelateCall /\ ~ ParentExisted /\ ~ ChildExisted)
    => /\ last.result = Err(NoRecordFound)
       /\ last.http.status = 404
       /\ db = last.before

\* neither the problem nor the incident existed, while other records did
C23_Witness ==
    /\ RelateCall
    /\ last.kind = "problem_incident"
    /\ ~ ParentExisted
    /\ ~ ChildExisted
    /\ last.before.problems # {}
    /\ last.before.incidents # {}
    /\ last.result = Err(NoRecordFound)
    /\ RelTable(db, last.kind) = {}

\* the coefficients for which IncidentPrio::from has an arm
PriorityProducts == {1, 2, 3, 4, 6, 9}

\* C24: the panic branch of the priority is out of reach: every incident
\* stored after any creates and updates has a product of the weights of its
\* impact and urgency among 1, 2, 3, 4, 6, 9, so computing its priority,
\* on reading or on serializing it, never panics
C24_PriorityNeverPanics ==
    /\ \A r \in db.incidents :
           /\ (IncidentImpact_weight(r.impact) * IncidentUrgency_weight(r.urgency)) % 256
                  \in PriorityProducts
           /\ Incident_priority(r) # "panic"
           /\ Incident_serialize(r).priority # Some("panic")
    /\ (last.kind = "incident" /\ is_ok(last.result) /\ last.op \in {"create", "update", "read"})
           => Incident_serialize(last.result[2]).priority # Some("panic")

\* an update raised the impact of a stored incident to the largest product
C24_Witness ==
    /\ last.kind = "incident"
    /\ last.op = "update"
    /\ is_ok(last.result)
    /\ RowOf(last.before, "incident", last.id).impact # "high"
    /\ RowOf(db, "incident", last.id).impact = "high"
    /\ RowOf(db, "incident", last.id).urgency = "high"
    /\ Incident_priority(RowOf(db, "incident", last.id)) = "critical"

\* why the storage layer made a statement of create fail, apart from a
\* foreign key
OtherFailures == {"unique_violation", "io_error", "io_check", "io_commit"}

\* C25: relation creation returns ConstraintError exactly when its INSERT
\* failed on a foreign key; every other failure of the INSERT, and every
\* failure of the existence check or of the commit, is returned as DbError,
\* never as ConstraintError or NoRecordFound
C25_ConstraintErrorMeansForeignKey ==
    (conc.on_delete \in OnDeleteRules /\ Returned(conc.creator))
    => /\ conc.creator.result = Err(ConstraintError)
            <=> conc.creator.cause = "foreign_key_violation"
       /\ conc.creator.cause \in OtherFailures => conc.creator.result = Err(DbError)
       /\ conc.creator.result = Err(NoRecordFound) <=> conc.creator.cause = "no_parent"
       /\ is_ok(conc.creator.result) <=> conc.creator.cause = "none"

\* the INSERT of a pair that is already related failed on the primary key
C25_Witness ==
    /\ conc.on_delete \in OnDeleteRules
    /\ Returned(conc.creator)
    /\ conc.creator.cause = "unique_violation"
    /\ conc.creator.result = Err(DbError)
    /\ \E r \in RelTable(db, focus) : Pair(focus, r) = <<conc.creator.parent, conc.creator.child>>

(***************************************************************************)
(* Validation alone: createset.validate() and updateset.validate(), the    *)
(* first statement of every create and update, on payloads in which one    *)
(* text field takes each length around the bounds.                         *)
(***************************************************************************)
\* the String fields of the createsets and updatesets
TextFields(kind) ==
    CASE kind = "configitem" -> {"name", "type", "owner", "description"}
      [] kind = "incident" -> {"title", "owner", "asignee", "description"}
      [] kind = "problem" -> {"title", "description", "causes", "workarounds", "resolutions"}
      [] kind = "rfc" -> {"title", "requester", "description"}
      [] kind = "ci_change" -> {"documentation"}

\* those that are Option<String> in the createset
OptionalTextFields(kind) ==
    CASE kind = "configitem" -> {"type", "owner"}
      [] kind = "incident" -> {"owner", "asignee"}
      [] kind = "problem" -> {"workarounds", "resolutions"}
      [] kind = "rfc" -> {}
      [] kind = "ci_change" -> {}

\* lengths on both sides of min = 1, max = 255 and max = 1024
BorderLengths == {0, 1, 255, 256, 1024, 1025}

FullCreateset(kind) ==
    CASE kind = "configitem" -> ConfigItemFullCreateset
      [] kind = "incident" -> IncidentFullCreateset
      [] kind = "problem" -> ProblemFullCreateset
      [] kind = "rfc" -> RFCFullCreateset
      [] kind = "ci_change" -> [implementation_timedate |-> 1, documentation |-> Str("b", 1)]

Createset_validate(kind, c) ==
    CASE kind = "configitem" -> ConfigItemCreateset_validate(c)
      [] kind = "incident" -> IncidentCreateset_validate(c)
      [] kind = "problem" -> ProblemCreateset_validate(c)
      [] kind = "rfc" -> RFCCreateset_validate(c)
      [] kind = "ci_change" -> CIChangeCreateset_validate(c)

Updateset_validate(kind, u) ==
    CASE kind = "configitem" -> ConfigItemUpdateset_validate(u)
      [] kind = "incident" -> IncidentUpdateset_validate(u)
      [] kind = "problem" -> ProblemUpdateset_validate(u)
      [] kind = "rfc" -> RFCUpdateset_validate(u)
      [] kind = "ci_change" -> CIChangeUpdateset_validate(u)

\* the createset with the field given at the length, or not given
CreatesetOf(v) ==
    LET text == Str("x", v.len)
    IN  [FullCreateset(v.kind) EXCEPT ![v.field] =
            IF v.field \in OptionalTextFields(v.kind)
            THEN IF v.state = "value" THEN Some(text) ELSE None
            ELSE text]

\* the updateset read from {} or from the basic payload with the key
\* absent, null or given at the length
UpdatesetOf(v) ==
    LET from == IF v.base = "basic" THEN BasicJson(v.kind) ELSE EmptyJson
        json == CASE v.state = "absent" -> Remove(from, v.field)
                  [] v.state = "null" -> Override(from, v.field, None)
                  [] v.state = "value" -> Override(from, v.field, Some(Str("x", v.len)))
    IN  Updateset_deserialize(v.kind, json)

ValidInput(kind, op, field, state, len, base) ==
    [phase |-> "input", kind |-> kind, op |-> op, field |-> field, state |-> state,
     len |-> len, base |-> base, accepted |-> FALSE]

ValidInputs ==
    UNION {UNION {
        {ValidInput(kind, "create", f, "value", n, "full") : n \in BorderLengths}
        \cup (IF f \in OptionalTextFields(kind)
              THEN {ValidInput(kind, "create", f, "null", 0, "full")} ELSE {})
        \cup {ValidInput(kind, "update", f, "value", n, b) :
                  n \in BorderLengths, b \in {"empty", "basic"}}
        \cup {ValidInput(kind, "update", f, st, 0, b) :
                  st \in {"absent", "null"}, b \in {"empty", "basic"}}
        : f \in TextFields(kind)} : kind \in UpdatesetKinds}

\* createset.validate()? / updateset.validate()?
Validate ==
    /\ valid.phase = "input"
    /\ valid' = [valid EXCEPT !.phase = "validated",
                              !.accepted = IF valid.op = "create"
                                           THEN Createset_validate(valid.kind, CreatesetOf(valid))
                                           ELSE Updateset_validate(valid.kind, UpdatesetOf(valid))]
    /\ UNCHANGED <<db, next_uuid, last, nops, focus, linked, serde, prio, conc>>

InitValid ==
    /\ db = EmptyDb
    /\ next_uuid = 1
    /\ last = NoCall
    /\ nops = 0
    /\ focus = "validate"
    /\ linked = {}
    /\ serde = NoSerde
    /\ prio = NoPrio
    /\ conc = NoConc
    /\ valid \in ValidInputs

NextValid == Validate

SpecValid == InitValid /\ [][NextValid]_vars

\* the bounds as stated: a title or name has 1 to 255 characters, any other
\* text at most 1024
StatedBounds(field) == IF field \in {"title", "name"} THEN <<1, 255>> ELSE <<0, 1024>>

InvalidChangeUpdatesets ==
    {CIChangeUpdateset_deserialize(json) :
        json \in {Override(EmptyJson, "documentation", Some(Str("x", 1025))),
                  Override(EmptyJson, "documentation", None),
                  Override(CIChangeBasicJson, "implementation_timedate", None)}}

\* C27: validation comes before existence: an update whose updateset fails
\* validation returns ValidationError, never NoRecordFound, whether a record
\* with the id exists or not, for the four entities and for the change
\* records, and nothing is written
C27_ValidationBeforeExistence ==
    /\ (last.op = "update" /\ last.kind \in EntityKinds
            /\ ~ Updateset_validate(last.kind, last.arg))
        => /\ last.result = Err(ValidationError)
           /\ last.http.status = 422
           /\ db = last.before
    /\ \A id \in KnownIds, ci_id \in KnownIds, u \in InvalidChangeUpdatesets :
           /\ ~ Updateset_validate("ci_change", u)
           /\ ci_changes_update(db, id, ci_id, u) = Outcome(Err(ValidationError), db)

\* an invalid updateset was sent for an id that does not exist
C27_Witness ==
    /\ last.op = "update"
    /\ last.kind = "configitem"
    /\ ~ Updateset_validate(last.kind, last.arg)
    /\ ~ Exists(last.before, last.kind, last.id)
    /\ last.before.configitems # {}
    /\ last.result = Err(ValidationError)

(***************************************************************************)
(* Two updates and a delete of an entity served concurrently.  Each        *)
(* handler awaits one statement on the pool; the requests are received in  *)
(* any order and their statements run one at a time, in any order.         *)
(***************************************************************************)
EntityCreate(kind, d, c, now, uuid) ==
    CASE kind = "configitem" -> configitems_create(d, c, now, uuid)
      [] kind = "incident" -> incidents_create(d, c, now, uuid)
      [] kind = "problem" -> problems_create(d, c, now, uuid)
      [] kind = "rfc" -> rfcs_create(d, c, now, uuid)

with_table(d, kind, rows) ==
    CASE kind = "configitem" -> [d EXCEPT !.configitems = rows]
      [] kind = "incident" -> [d EXCEPT !.incidents = rows]
      [] kind = "problem" -> [d EXCEPT !.problems = rows]
      [] kind = "rfc" -> [d EXCEPT !.rfcs = rows]

\* update payloads of one key: the value of the basic payload, or null
\* where the column may be null
RacePayloads(kind) ==
    {Override(EmptyJson, k, BasicJson(kind)[k]) : k \in DOMAIN BasicJson(kind)}
    \cup {Override(EmptyJson, k, None) : k \in OptionalFields(kind)}

\* the UPDATE works on the rows as they were when the request was received
row_version_mut(current, seen) == seen

\* the columns named in SET col = COALESCE($n, col) and in WHERE id = $1 are
\* those of the rows stored when the statement runs
row_version(current, seen) == current

RaceStep(newconc) ==
    /\ focus \in EntityKinds
    /\ conc.race = "on"
    /\ conc' = newconc
    /\ UNCHANGED <<focus, linked, serde, prio, valid>>

\* a record is stored before the concurrent requests arrive
Seed ==
    /\ conc.first.pc = "idle" /\ conc.second.pc = "idle" /\ conc.remover.pc = "idle"
    /\ nops < MaxRaceRecords
    /\ LET out == EntityCreate(focus, db, FullCreateset(focus), 1, next_uuid)
       IN  /\ db' = out.db
           /\ last' = Call("create", focus, next_uuid, EmptyJson, FullCreateset(focus), 1,
                           out.result)
    /\ nops' = nops + 1
    /\ next_uuid' = next_uuid + 1
    /\ RaceStep(conc)

\* update_<entity>(Path(id), Json(updateset)) is called
UpdateBegin(t) ==
    \E id \in KnownIds, json \in RacePayloads(focus) :
        /\ conc[t].pc = "idle"
        /\ RaceStep([conc EXCEPT ![t] = [IdleRequest EXCEPT !.pc = "ready", !.id = id,
                                                            !.json = json, !.seen = db]])
        /\ UNCHANGED <<db, next_uuid, last, nops>>

\* entities::<entity>::update(id, updateset, &pool).await?
UpdateRun(t) ==
    /\ conc[t].pc = "ready"
    /\ LET u == Updateset_deserialize(focus, conc[t].json)
           out == EntityUpdate(focus, row_version(db, conc[t].seen), conc[t].id, u)
       IN  /\ db' = IF is_ok(out.result)
                    THEN with_table(db, focus,
                                    {r \in Table(db, focus) : r.id # conc[t].id}
                                        \cup {out.result[2]})
                    ELSE db
           /\ RaceStep([conc EXCEPT ![t] = [@ EXCEPT !.pc = "done", !.result = out.result]])
    /\ UNCHANGED <<next_uuid, last, nops>>

FirstUpdateBegin == UpdateBegin("first")
FirstUpdateRun == UpdateRun("first")
SecondUpdateBegin == UpdateBegin("second")
SecondUpdateRun == UpdateRun("second")

\* delete_<entity>(Path(id)) is called
DeleteBegin ==
    \E id \in KnownIds :
        /\ conc.remover.pc = "idle"
        /\ RaceStep([conc EXCEPT !.remover = [IdleRequest EXCEPT !.pc = "ready", !.id = id,
                                                                 !.seen = db]])
        /\ UNCHANGED <<db, next_uuid, last, nops>>

\* entities::<entity>::delete(id, &pool).await?
DeleteRun ==
    /\ conc.remover.pc = "ready"
    /\ LET out == EntityDelete(focus, db, conc.remover.id)
       IN  /\ db' = out.db
           /\ RaceStep([conc EXCEPT !.remover = [@ EXCEPT !.pc = "done",
                                                          !.result = out.result]])
    /\ UNCHANGED <<next_uuid, last, nops>>

InitRace ==
    /\ db = EmptyDb
    /\ next_uuid = 1
    /\ last = NoCall
    /\ nops = 0
    /\ focus \in EntityKinds
    /\ linked = {}
    /\ serde = NoSerde
    /\ prio = NoPrio
    /\ conc = [NoConc EXCEPT !.race = "on"]
    /\ valid = NoValid

NextRace ==
    \/ Seed
    \/ FirstUpdateBegin \/ FirstUpdateRun
    \/ SecondUpdateBegin \/ SecondUpdateRun
    \/ DeleteBegin \/ DeleteRun

SpecRace == InitRace /\ [][NextRace]_vars

\* the stored field shows what the one-key payload asked for
Carries(row, json) ==
    \A k \in DOMAIN json :
        IF is_some(json[k])
        THEN row[k] = (IF k \in OptionalFields(focus) THEN json[k] ELSE unwrap(json[k]))
        ELSE k \in OptionalFields(focus) => row[k] = None

\* C28: no update is lost: when two updates of the same stored record that
\* set different fields were served concurrently and both succeeded, the
\* record stored afterwards carries both changes, whichever statement ran
\* first, and serving either again would change nothing
C28_NoLostUpdate ==
    (/\ conc.race = "on"
     /\ conc.first.pc = "done" /\ conc.second.pc = "done"
     /\ conc.first.id = conc.second.id
     /\ DOMAIN conc.first.json # DOMAIN conc.second.json
     /\ is_ok(conc.first.result) /\ is_ok(conc.second.result)
     /\ Exists(db, focus, conc.first.id))
    => LET row == RowOf(db, focus, conc.first.id)
       IN  /\ Carries(row, conc.first.json)
           /\ Carries(row, conc.second.json)
           /\ \A t \in {"first", "second"} :
                  EntityUpdate(focus, db, conc[t].id,
                               Updateset_deserialize(focus, conc[t].json)).db = db

\* both requests were received before either statement ran, and the record
\* shows the title of one and the status of the other
C28_Witness ==
    /\ conc.race = "on"
    /\ focus = "incident"
    /\ conc.first.pc = "done" /\ conc.second.pc = "done"
    /\ conc.first.id = conc.second.id
    /\ conc.first.seen = conc.second.seen
    /\ Exists(conc.first.seen, focus, conc.first.id)
    /\ DOMAIN conc.first.json = {"title"} /\ is_some(conc.first.json.title)
    /\ DOMAIN conc.second.json = {"status"} /\ is_some(conc.second.json.status)
    /\ Exists(db, focus, conc.first.id)
    /\ RowOf(db, focus, conc.first.id).title = unwrap(conc.first.json.title)
    /\ RowOf(db, focus, conc.first.id).status = unwrap(conc.second.json.status)

\* the last request named a change record under a configuration item: the
\* id of the change record
NamedChange == IF last.op = "update" THEN last.arg[1] ELSE last.arg

\* the last request read, updated (with a valid updateset) or deleted a
\* change record through the existing configuration item B = last.id
ChangeRequestThrough ==
    /\ last.kind = "ci_change"
    /\ last.op \in {"read", "update", "unrelate"}
    /\ Exists(last.before, "configitem", last.id)
    /\ last.op = "update" => CIChangeUpdateset_validate(last.arg[2])

UpdateRacedDelete(t) ==
    /\ conc.race = "on"
    /\ conc[t].pc = "done" /\ conc.remover.pc = "done"
    /\ conc[t].id = conc.remover.id
    /\ Exists(conc[t].seen, focus, conc[t].id)
    /\ Exists(conc.remover.seen, focus, conc.remover.id)
    /\ Updateset_validate(focus, Updateset_deserialize(focus, conc[t].json))

\* C30: however an update and a delete of the same stored record
\* interleave, the delete succeeds, the update returns the merged record or
\* NoRecordFound, and once both have returned no record has the id: an
\* update never stores a deleted record again
C30_UpdateNeverRevivesDeleted ==
    \A t \in {"first", "second"} :
        UpdateRacedDelete(t)
        => /\ conc.remover.result = Ok("unit")
           /\ \/ conc[t].result = Err(NoRecordFound)
              \/ /\ is_ok(conc[t].result)
                 /\ conc[t].result[2].id = conc[t].id
                 /\ Carries(conc[t].result[2], conc[t].json)
           /\ ~ Exists(db, focus, conc[t].id)

\* the update was received before the delete had run and its statement ran
\* after: it found no record
C30_Witness ==
    /\ UpdateRacedDelete("first")
    /\ focus = "rfc"
    /\ conc.second.pc = "idle"
    /\ conc.remover.result = Ok("unit")
    /\ conc.first.result = Err(NoRecordFound)
    /\ ~ Exists(db, focus, conc.first.id)

====
